---- MODULE Spec2Model ----
(***************************************************************************)
(* Pixel Heroes (src/sourcecode.py): the turn-based battle session         *)
(* (BattleView, its swap menus, _handle_rewards), the battle entry points  *)
(* (start_battle, /boss) and the stat / xp helpers they call.              *)
(*                                                                         *)
(* A Discord message shows the components of at most one view.  A handler  *)
(* runs without interruption up to its first network await (the reply that *)
(* edits the message); save_json holds no await inside its lock, so it     *)
(* never suspends.  A handler is therefore two steps: its body, and the    *)
(* completion of its reply.  Between the two, other interactions of the    *)
(* same message can be delivered.                                          *)
(***************************************************************************)
EXTENDS Integers, Sequences, FiniteSets, TLC

\* ------------------------------------------------------------------ bounds
MaxBattles == 1
MaxViews == 3
MaxInFlight == 2
MaxBossTeam == 3
RunBattles == 3
MaxEv == 12
MaxOps == 3
MaxElixirs == 3
MaxPotions == 1

MaxHeroes == 7
MaxTeamOps == 8
MaxDefeats == 3
MaxGains == 2

MaxEconOps == 3

MaxVersion == 2

MaxSaves == 4

MaxClock == 90000

MaxSweepOps == 2

IdleBattles == 2

MaxRecruitOps == 4

\* ---------------------------------------------------------- program limits
MaxIv == 31
MaxLevel == 100

StartContracts == 10
RelicGoal == 100

\* ----------------------------------------------------------- small helpers
Max2(a, b) == IF a >= b THEN a ELSE b
Min2(a, b) == IF a <= b THEN a ELSE b

StatNames == {"hp", "attack", "defense", "magic", "speed"}

\* --------------------------------------------------------------- StatEngine
\* a hit-point formula in which effort values count against the entity
calc_hp_EvAgainst(base, iv, ev, level) ==
    (((2 * base + iv - (ev \div 4)) * level) \div 100) + level + 10

calc_hp(base, iv, ev, level) ==
    (((2 * base + iv + (ev \div 4)) * level) \div 100) + level + 10

calc_stat(base, iv, ev, level) ==
    (((2 * base + iv + (ev \div 4)) * level) \div 100) + 5

\* int(0.015 * level^3 + 10 * level^2); the integer form agrees with the
\* float expression for every level in 1..101.
entity_xp_required(level) ==
    (15 * level * level * level + 10000 * level * level) \div 1000

\* int(200 * 1.059^(level-1)) for the account levels 1..101.
XpRequiredTable ==
    <<200, 211, 224, 237, 251, 266, 282, 298, 316, 335,
       354, 375, 397, 421, 446, 472, 500, 529, 561, 594,
       629, 666, 705, 747, 791, 838, 887, 940, 995, 1054,
       1116, 1182, 1252, 1326, 1404, 1487, 1575, 1667, 1766, 1870,
       1980, 2097, 2221, 2352, 2491, 2638, 2794, 2958, 3133, 3318,
       3514, 3721, 3941, 4173, 4419, 4680, 4956, 5249, 5558, 5886,
       6234, 6602, 6991, 7404, 7840, 8303, 8793, 9312, 9861, 10443,
       11059, 11712, 12403, 13135, 13910, 14730, 15599, 16520, 17495, 18527,
       19620, 20777, 22003, 23302, 24676, 26132, 27674, 29307, 31036, 32867,
       34806, 36860, 39035, 41338, 43777, 46360, 49095, 51992, 55059, 58308,
       61748 >>

xp_required_for_level(level) == XpRequiredTable[level]

\* --------------------------------------------------------- template catalog
\* heroes.json / monsters.json are data outside the repository; the entries
\* are the two fallback templates of the encounter pickers, with an accuracy
\* below 100 so that a miss is possible.
HeroBase == [hp |-> 80, attack |-> 70, defense |-> 65, magic |-> 30, speed |-> 45]

MonsterBase == [hp |-> 50, attack |-> 20, defense |-> 15, magic |-> 10, speed |-> 20]

\* catalog skills as build_instance_from_template reads them:
\* power and "acc." are strings; a non-digit string is written "-".
HeroSkills ==
    << [skill |-> "Slash", type |-> "Physical", power |-> "50", acc |-> "90"] >>

MonsterSkills ==
    << [skill |-> "Splash", type |-> "Physical", power |-> "30", acc |-> "90"] >>

\* str.isdigit() and int() on the catalog strings the model uses
DigitStrings == {"0", "10", "30", "50", "90", "100"}

StrToInt(s) ==
    CASE s = "0" -> 0
      [] s = "10" -> 10
      [] s = "30" -> 30
      [] s = "50" -> 50
      [] s = "90" -> 90
      [] s = "100" -> 100
      [] OTHER -> 0

\* one moveset entry; numeric says whether int(power) succeeds in resolve_move
BuildMove(s) ==
    [ move    |-> s.skill,
      type    |-> s.type,
      power   |-> IF s.power \in DigitStrings THEN StrToInt(s.power) ELSE 0,
      numeric |-> TRUE,
      acc     |-> IF s.acc \in DigitStrings THEN StrToInt(s.acc) ELSE 100 ]

ScaledStats(base, iv, level) ==
    [ hp      |-> calc_hp(base.hp, iv, 0, level),
      attack  |-> calc_stat(base.attack, iv, 0, level),
      defense |-> calc_stat(base.defense, iv, 0, level),
      magic   |-> calc_stat(base.magic, iv, 0, level),
      speed   |-> calc_stat(base.speed, iv, 0, level) ]

\* build_instance_from_template: IVs rolled (one value for all five stats in
\* the model), EVs 0, current hp = max hp, the first four skills as moveset.
build_instance_from_template(base, skills, rarity, element, iv, level) ==
    [ level      |-> level,
      rarity     |-> rarity,
      element    |-> element,
      iv         |-> iv,
      stats      |-> ScaledStats(base, iv, level),
      current_hp |-> ScaledStats(base, iv, level).hp,
      xp         |-> 0,
      moveset    |-> [i \in 1..Min2(4, Len(skills)) |-> BuildMove(skills[i])] ]

\* ------------------------------------------------------------ resolve_move
\* str.lower() on the move names of the model
Lower(s) ==
    CASE s = "Slash" -> "slash"
      [] s = "SLASH" -> "slash"
      [] s = "Splash" -> "splash"
      [] s = "Strike" -> "strike"
      [] OTHER -> s

NoMove == [move |-> "", type |-> "", power |-> 0, numeric |-> FALSE, acc |-> 0]

\* the first moveset entry whose lower-cased label equals the lower-cased name
FindMove(moveset, name) ==
    LET hits == {i \in 1..Len(moveset) : Lower(moveset[i].move) = Lower(name)}
    IN  IF hits = {} THEN NoMove
        ELSE moveset[CHOOSE i \in hits : \A j \in hits : i <= j]

\* acc_raw = mvdata.get("acc") or mvdata.get("acc.") or 100 : a stored 0 is
\* falsy, the entry has no "acc." key, so 0 reads as 100.
AccVal(mv) == IF mv.acc = 0 THEN 100 ELSE mv.acc

\* the damage expression without its floor of 1
Damage_NoFloor(mv, attStats, defStats) ==
    IF mv.type = "Magical"
    THEN (mv.power + attStats.magic \div 2) - (defStats.defense \div 3)
    ELSE (mv.power + attStats.attack \div 2) - (defStats.defense \div 3)

Damage(mv, attStats, defStats) ==
    IF mv.type = "Magical"
    THEN Max2(1, (mv.power + attStats.magic \div 2) - (defStats.defense \div 3))
    ELSE Max2(1, (mv.power + attStats.attack \div 2) - (defStats.defense \div 3))

\* a resolve_move that plays an unknown name as a default Strike
resolve_move_DefaultStrike(attacker, defender, name, draw) ==
    LET found == FindMove(attacker.moveset, name)
        mv == IF found = NoMove
              THEN [move |-> name, type |-> "Physical", power |-> 40,
                    numeric |-> TRUE, acc |-> 100]
              ELSE found
    IN  IF draw > AccVal(mv)
        THEN [outcome |-> "missed", dmg |-> 0, hp |-> defender.current_hp]
        ELSE IF ~mv.numeric
        THEN [outcome |-> "support", dmg |-> 0, hp |-> defender.current_hp]
        ELSE [outcome |-> "hit",
              dmg |-> Damage(mv, attacker.stats, defender.stats),
              hp  |-> Max2(0, defender.current_hp
                                - Damage(mv, attacker.stats, defender.stats))]

\* resolve_move(attacker, defender, chosen_move) with the accuracy draw
\* random.randint(1, 100) as a parameter: the outcome and the defender's hp.
resolve_move(attacker, defender, name, draw) ==
    LET mv == FindMove(attacker.moveset, name)
    IN  IF mv = NoMove
        THEN [outcome |-> "failed", dmg |-> 0, hp |-> defender.current_hp]
        ELSE IF draw > AccVal(mv)
        THEN [outcome |-> "missed", dmg |-> 0, hp |-> defender.current_hp]
        ELSE IF ~mv.numeric
        THEN [outcome |-> "support", dmg |-> 0, hp |-> defender.current_hp]
        ELSE [outcome |-> "hit",
              dmg |-> Damage(mv, attacker.stats, defender.stats),
              hp  |-> Max2(0, defender.current_hp
                                - Damage(mv, attacker.stats, defender.stats))]

\* ------------------------------------------------------------ process_turn
\* the candidate orders: the faster side first, either order on a tie
TurnOrders_PlayerOnTie(player_speed, enemy_speed) ==
    IF player_speed >= enemy_speed THEN {<<"player", "enemy">>}
    ELSE {<<"enemy", "player">>}

TurnOrders(player_speed, enemy_speed) ==
    IF player_speed > enemy_speed THEN {<<"player", "enemy">>}
    ELSE IF enemy_speed > player_speed THEN {<<"enemy", "player">>}
    ELSE {<<"player", "enemy">>, <<"enemy", "player">>}

\* a loop that looks only at the hp of the side about to move
SideActs_OwnHp(side, php, ehp) == IF side = "player" THEN php > 0 ELSE ehp > 0

\* whether the side of this loop iteration resolves its move
SideActs(side, php, ehp) == php > 0 /\ ehp > 0

\* one iteration of the execute loop on a pass state
\* st = [php, ehp, acts, ended]; acts records what was resolved, with the hp
\* of both sides just before.
LoopStep(st, side, hero, enemy, pmove, emove, draw) ==
    IF st.ended # "none" THEN st
    ELSE
      LET acts == SideActs(side, st.php, st.ehp)
          h == [hero EXCEPT !.current_hp = st.php]
          e == [enemy EXCEPT !.current_hp = st.ehp]
          r == IF side = "player" THEN resolve_move(h, e, pmove, draw)
                                  ELSE resolve_move(e, h, emove, draw)
          php2 == IF acts /\ side = "enemy" THEN r.hp ELSE st.php
          ehp2 == IF acts /\ side = "player" THEN r.hp ELSE st.ehp
          log2 == IF acts
                  THEN Append(st.acts, [side |-> side,
                                        php |-> st.php, ehp |-> st.ehp])
                  ELSE st.acts
      IN  [ php   |-> php2,
            ehp   |-> ehp2,
            acts  |-> log2,
            ended |-> IF ehp2 <= 0 THEN "enemy_down"
                      ELSE IF php2 <= 0 THEN "player_down"
                      ELSE "none" ]

\* the whole execute loop for one order and the two accuracy draws
RunPass(order, hero, enemy, pmove, emove, draw1, draw2) ==
    LET s0 == [php |-> hero.current_hp, ehp |-> enemy.current_hp,
               acts |-> <<>>, ended |-> "none"]
        s1 == LoopStep(s0, order[1], hero, enemy, pmove, emove, draw1)
    IN  LoopStep(s1, order[2], hero, enemy, pmove, emove, draw2)

\* ----------------------------------------------------- ProgressionTracker
\* recalc_stats_from_base: the new current hp keeps the old hp fraction,
\* max(1, int(new_max * (old_cur / old_max))).  For the hp values the model
\* reaches (old_max in 20..60, one level at a time) the float product
\* truncates to the exact integer quotient.
\* a level change that leaves current hp as it was
HpRescale_Keep(new_max, old_cur, old_max) == old_cur

HpRescale(new_max, old_cur, old_max) ==
    Max2(1, (new_max * Max2(0, Min2(old_cur, old_max))) \div old_max)

recalc_stats_from_base(entity, base) ==
    LET st == ScaledStats(base, entity.iv, entity.level)
    IN  [entity EXCEPT
           !.stats = st,
           !.current_hp = HpRescale(st.hp, entity.current_hp, entity.stats.hp)]

\* a loop body that runs at most once per call
LevelUpLoop_Once(entity, base) ==
    IF entity.xp >= entity_xp_required(entity.level + 1) /\ entity.level < 100
    THEN recalc_stats_from_base(
           [entity EXCEPT !.xp = entity.xp - entity_xp_required(entity.level + 1),
                          !.level = entity.level + 1],
           base)
    ELSE entity

RECURSIVE LevelUpLoop(_, _)
LevelUpLoop(entity, base) ==
    IF entity.xp >= entity_xp_required(entity.level + 1) /\ entity.level < 100
    THEN LevelUpLoop(
           recalc_stats_from_base(
             [entity EXCEPT !.xp = entity.xp - entity_xp_required(entity.level + 1),
                            !.level = entity.level + 1],
             base),
           base)
    ELSE entity

\* the "leveled up to" lines award_entity_xp appends to the log: one per
\* iteration of its loop, none for an entity already at the cap
RECURSIVE LevelUpLines(_)
LevelUpLines(entity) ==
    IF entity.xp >= entity_xp_required(entity.level + 1) /\ entity.level < 100
    THEN 1 + LevelUpLines(
               [entity EXCEPT !.xp = entity.xp - entity_xp_required(entity.level + 1),
                              !.level = entity.level + 1])
    ELSE 0

award_entity_xp_log(entity, xp_gain) ==
    IF entity.level >= 100 THEN 0
    ELSE LevelUpLines([entity EXCEPT !.xp = entity.xp + xp_gain])

award_entity_xp(entity, xp_gain, base) ==
    IF entity.level >= 100
    THEN [entity EXCEPT !.level = 100, !.xp = 0]
    ELSE LevelUpLoop([entity EXCEPT !.xp = entity.xp + xp_gain], base)

\* ------------------------------------------------------------------- state
Users == {"u1", "u2"}
Heroes == {"h1", "h2"}

\* active_team of each player: u1 fields two heroes, u2 has a profile only
ActiveTeam(u) == IF u = "u1" THEN <<"h1", "h2">> ELSE <<>>

Contracts == {"Contract", "Great Contract", "Ancient Contract", "Soulbound Contract"}

\* items.json materials, indexed by element and rarity tier
Materials == {"Droplet", "Pearl"}

MaterialPool(element, rarity) ==
    IF element = "water" /\ rarity = "common" THEN <<"Droplet">>
    ELSE IF element = "water" /\ rarity = "uncommon" THEN <<"Pearl">>
    ELSE <<>>

Items == Contracts \cup Materials

VARIABLES
    players,       \* players[u]: coins, xp, level, bag, badge, boss_battle
    pc,            \* pc[h]: the hero entities of u1's roster
    enemies,       \* the enemy entities created so far
    views,         \* the BattleView objects created so far
    drop_summary,  \* per message: the drop_summary dict its views share
    msgs,          \* per battle message: the components and embed it shows
    tasks,         \* replies of suspended handlers, not yet completed
    last,          \* the interaction handled last and who sent it
    lastTurn,      \* the turn pass of the handler that ran last, if it ran one
    phaseSum,      \* per player: rewards rolled since /boss, and defeats
    pure           \* the subject of the specifications that follow one function
                   \* or one hero: its inputs, its result, its record

vars == <<players, pc, enemies, views, drop_summary, msgs, tasks, last,
          lastTurn, phaseSum, pure>>

NoBoss == [on |-> FALSE, index |-> 0, size |-> 0, first |-> 0]
NoComp == [kind |-> "none", view |-> 0, opts |-> {}]
NoSummary == [coins |-> 0, txp |-> 0, hxp |-> 0,
              drops |-> [i \in Materials |-> 0], cleared |-> FALSE]
ZeroSum == [coins |-> 0, txp |-> 0, hxp |-> 0,
            drops |-> [i \in Materials |-> 0], defeats |-> 0]
NoTurn == [msg |-> 0, pspeed |-> 0, espeed |-> 0, choices |-> {},
           order |-> <<>>, acts |-> <<>>, ended |-> "none"]
NoPure == [phase |-> "off"]

InitBattle ==
    /\ players = [u \in Users |->
                    [coins |-> 0, xp |-> 170, level |-> 1,
                     bag |-> [i \in Items |-> 0],
                     badge |-> FALSE, boss_battle |-> NoBoss]]
    /\ pc = [h \in Heroes |->
               build_instance_from_template(HeroBase, HeroSkills,
                                            "uncommon", "earth", 0, 5)]
    /\ enemies = <<>>
    /\ views = <<>>
    /\ drop_summary = <<>>
    /\ msgs = <<>>
    /\ tasks = {}
    /\ last = [res |-> "init", foreign |-> FALSE, overlap |-> FALSE]
    /\ lastTurn = NoTurn
    /\ phaseSum = [u \in Users |-> ZeroSum]

Init == InitBattle /\ pure = NoPure

\* --------------------------------------------------------- _handle_rewards
RarityOrder == <<"common", "uncommon", "rare", "epic", "legendary">>

RarityIndex(r) ==
    IF \E i \in 1..5 : RarityOrder[i] = r
    THEN CHOOSE i \in 1..5 : RarityOrder[i] = r
    ELSE 1

\* rarity_rewards, rarity_xp, xp_rewards as <<low, high>>
CoinRange(r) ==
    CASE r = "common" -> <<50, 100>>
      [] r = "uncommon" -> <<150, 250>>
      [] r = "rare" -> <<250, 500>>
      [] r = "epic" -> <<500, 1000>>
      [] r = "legendary" -> <<1000, 5000>>
      [] OTHER -> <<100, 200>>

HeroXpRange(r) ==
    CASE r = "common" -> <<200, 1500>>
      [] r = "uncommon" -> <<1500, 3000>>
      [] r = "rare" -> <<3000, 6000>>
      [] r = "epic" -> <<6000, 12000>>
      [] r = "legendary" -> <<15000, 30000>>
      [] OTHER -> <<5, 10>>

TrainerXpRange(r) ==
    CASE r = "common" -> <<20, 40>>
      [] r = "uncommon" -> <<40, 80>>
      [] r = "rare" -> <<80, 160>>
      [] r = "epic" -> <<160, 300>>
      [] r = "legendary" -> <<1000, 2000>>
      [] OTHER -> <<5, 10>>

\* get_adjacent_rarity: roll < 0.70 same, < 0.85 one higher, else one lower
AdjRolls == {"same", "higher", "lower"}

AdjacentRarity(enemy_rarity, roll) ==
    LET idx == RarityIndex(enemy_rarity)
    IN  IF roll = "same" THEN RarityOrder[idx]
        ELSE IF roll = "higher" THEN RarityOrder[Min2(idx + 1, 5)]
        ELSE RarityOrder[Max2(idx - 1, 1)]

\* the pool of one drop: the chosen tier's list of the enemy's element, or,
\* when that is empty, all tiers of that element
DropPool(element, chosen_rarity) ==
    IF MaterialPool(element, chosen_rarity) # <<>>
    THEN MaterialPool(element, chosen_rarity)
    ELSE MaterialPool(element, "common") \o MaterialPool(element, "uncommon")
         \o MaterialPool(element, "rare") \o MaterialPool(element, "epic")
         \o MaterialPool(element, "legendary")

DropItems(enemy) ==
    UNION { {DropPool(enemy.element, AdjacentRarity(enemy.rarity, r))[i] :
               i \in 1..Len(DropPool(enemy.element, AdjacentRarity(enemy.rarity, r)))} :
            r \in AdjRolls }

\* the material sequences num_drops = n can produce, for n in counts
DropSeqs(enemy, counts) ==
    IF DropItems(enemy) = {} THEN {<<>>}
    ELSE UNION {[1..n -> DropItems(enemy)] : n \in counts}

CountIn(seq, item) == Cardinality({i \in 1..Len(seq) : seq[i] = item})

\* the adventurer level-up loop; amt is the contract quantity rolled
RECURSIVE AccountCascade(_, _)
AccountCascade(p, amt) ==
    IF p.xp >= xp_required_for_level(p.level)
    THEN LET new_level == p.level + 1
             tier == IF new_level < 10 THEN "Contract"
                     ELSE IF new_level < 20 THEN "Great Contract"
                     ELSE IF new_level < 50 THEN "Ancient Contract"
                     ELSE "none"
             bag1 == IF tier = "none" THEN p.bag
                     ELSE [p.bag EXCEPT ![tier] = @ + amt]
             bag2 == IF new_level \in {10, 25, 50, 75, 100}
                     THEN [bag1 EXCEPT !["Soulbound Contract"] = @ + 1]
                     ELSE bag1
         IN  AccountCascade(
               [p EXCEPT !.xp = p.xp - xp_required_for_level(p.level),
                         !.level = new_level,
                         !.coins = p.coins + new_level * 200,
                         !.bag = bag2],
               amt)
    ELSE p

\* a settlement that adds the defeat's coins to the ledger and leaves the
\* player's coins for later
HandleRewards_LedgerOnly(v, P, H, E, D, roll) ==
    LET u == v.user_id
        p0 == P[u]
        b == p0.boss_battle
        cleared == b.on /\ b.index + 1 >= b.size
        hasNext == b.on /\ b.index + 1 < b.size
        boss_coins == IF cleared THEN roll.boss_coins ELSE 0
        p1 == IF cleared
              THEN [p0 EXCEPT !.coins = @ + boss_coins, !.badge = TRUE,
                              !.boss_battle = NoBoss]
              ELSE IF hasNext
              THEN [p0 EXCEPT !.boss_battle.index = @ + 1]
              ELSE p0
        enemy == E[v.enemy]
        ko_coins == roll.coin + enemy.level \div 2
        p2 == p1
        hero == H[v.player_hero]
        hero_xp_gain == roll.hxp + enemy.level \div 2
        awarded == hero.level < 100
        hero2 == IF awarded THEN award_entity_xp(hero, hero_xp_gain, HeroBase)
                 ELSE hero
        p3 == AccountCascade([p2 EXCEPT !.xp = @ + roll.txp], roll.amt)
        p4 == [p3 EXCEPT !.bag = [i \in Items |->
                                    p3.bag[i] + CountIn(roll.drops, i)]]
        v2 == [v EXCEPT !.total_coins = @ + ko_coins,
                        !.total_hero_xp = IF awarded THEN @ + hero_xp_gain ELSE @,
                        !.total_trainer_xp = @ + roll.txp]
        d2 == [i \in Materials |-> D[v.msg][i] + CountIn(roll.drops, i)]
    IN  [ players |-> [P EXCEPT ![u] = p4],
          pc      |-> [H EXCEPT ![v.player_hero] = hero2],
          view    |-> v2,
          drops   |-> d2,
          inBoss  |-> b.on,
          cleared |-> cleared,
          hasNext |-> hasNext,
          rolled  |-> [coins |-> ko_coins + boss_coins, txp |-> roll.txp,
                       hxp |-> IF awarded THEN hero_xp_gain ELSE 0,
                       drops |-> [i \in Materials |-> CountIn(roll.drops, i)]],
          summary |-> [coins |-> v2.total_coins + boss_coins,
                       txp |-> v2.total_trainer_xp,
                       hxp |-> v2.total_hero_xp,
                       drops |-> d2,
                       cleared |-> cleared] ]

\* a settlement that awards the hero xp to the lead of the team
HandleRewards_LeadXp(v, P, H, E, D, roll) ==
    LET u == v.user_id
        p0 == P[u]
        b == p0.boss_battle
        cleared == b.on /\ b.index + 1 >= b.size
        hasNext == b.on /\ b.index + 1 < b.size
        boss_coins == IF cleared THEN roll.boss_coins ELSE 0
        p1 == IF cleared
              THEN [p0 EXCEPT !.coins = @ + boss_coins, !.badge = TRUE,
                              !.boss_battle = NoBoss]
              ELSE IF hasNext
              THEN [p0 EXCEPT !.boss_battle.index = @ + 1]
              ELSE p0
        enemy == E[v.enemy]
        ko_coins == roll.coin + enemy.level \div 2
        p2 == [p1 EXCEPT !.coins = @ + ko_coins]
        lead == ActiveTeam("u1")[1]
        hero == H[lead]
        hero_xp_gain == roll.hxp + enemy.level \div 2
        awarded == hero.level < 100
        hero2 == IF awarded THEN award_entity_xp(hero, hero_xp_gain, HeroBase)
                 ELSE hero
        p3 == AccountCascade([p2 EXCEPT !.xp = @ + roll.txp], roll.amt)
        p4 == [p3 EXCEPT !.bag = [i \in Items |->
                                    p3.bag[i] + CountIn(roll.drops, i)]]
        v2 == [v EXCEPT !.total_coins = @ + ko_coins,
                        !.total_hero_xp = IF awarded THEN @ + hero_xp_gain ELSE @,
                        !.total_trainer_xp = @ + roll.txp]
        d2 == [i \in Materials |-> D[v.msg][i] + CountIn(roll.drops, i)]
    IN  [ players |-> [P EXCEPT ![u] = p4],
          pc      |-> [H EXCEPT ![lead] = hero2],
          view    |-> v2,
          drops   |-> d2,
          inBoss  |-> b.on,
          cleared |-> cleared,
          hasNext |-> hasNext,
          rolled  |-> [coins |-> ko_coins + boss_coins, txp |-> roll.txp,
                       hxp |-> IF awarded THEN hero_xp_gain ELSE 0,
                       drops |-> [i \in Materials |-> CountIn(roll.drops, i)]],
          summary |-> [coins |-> v2.total_coins + boss_coins,
                       txp |-> v2.total_trainer_xp,
                       hxp |-> v2.total_hero_xp,
                       drops |-> d2,
                       cleared |-> cleared] ]

\* The body of _handle_rewards for BattleView v when its enemy is at 0 hp,
\* up to the reply.  P, H, E are the player records, heroes and enemies as
\* the turn pass left them; roll holds the random draws.
HandleRewards(v, P, H, E, D, roll) ==
    LET u == v.user_id
        p0 == P[u]
        b == p0.boss_battle
        cleared == b.on /\ b.index + 1 >= b.size
        hasNext == b.on /\ b.index + 1 < b.size
        boss_coins == IF cleared THEN roll.boss_coins ELSE 0
        p1 == IF cleared
              THEN [p0 EXCEPT !.coins = @ + boss_coins, !.badge = TRUE,
                              !.boss_battle = NoBoss]
              ELSE IF hasNext
              THEN [p0 EXCEPT !.boss_battle.index = @ + 1]
              ELSE p0
        enemy == E[v.enemy]
        ko_coins == roll.coin + enemy.level \div 2
        p2 == [p1 EXCEPT !.coins = @ + ko_coins]
        hero == H[v.player_hero]
        hero_xp_gain == roll.hxp + enemy.level \div 2
        awarded == hero.level < 100
        hero2 == IF awarded THEN award_entity_xp(hero, hero_xp_gain, HeroBase)
                 ELSE hero
        p3 == AccountCascade([p2 EXCEPT !.xp = @ + roll.txp], roll.amt)
        p4 == [p3 EXCEPT !.bag = [i \in Items |->
                                    p3.bag[i] + CountIn(roll.drops, i)]]
        v2 == [v EXCEPT !.total_coins = @ + ko_coins,
                        !.total_hero_xp = IF awarded THEN @ + hero_xp_gain ELSE @,
                        !.total_trainer_xp = @ + roll.txp]
        d2 == [i \in Materials |-> D[v.msg][i] + CountIn(roll.drops, i)]
    IN  [ players |-> [P EXCEPT ![u] = p4],
          pc      |-> [H EXCEPT ![v.player_hero] = hero2],
          view    |-> v2,
          drops   |-> d2,
          inBoss  |-> b.on,
          cleared |-> cleared,
          hasNext |-> hasNext,
          rolled  |-> [coins |-> ko_coins + boss_coins, txp |-> roll.txp,
                       hxp |-> IF awarded THEN hero_xp_gain ELSE 0,
                       drops |-> [i \in Materials |-> CountIn(roll.drops, i)]],
          summary |-> [coins |-> v2.total_coins + boss_coins,
                       txp |-> v2.total_trainer_xp,
                       hxp |-> v2.total_hero_xp,
                       drops |-> d2,
                       cleared |-> cleared] ]

\* the draws the battle specification explores at one enemy defeat
SpecDropCounts == {1}
ContractAmounts == {2}

BossCoinRolls(badge_already) == IF badge_already THEN {5000} ELSE {10000}

Rolls(enemy, p) ==
    [ coin : {CoinRange(enemy.rarity)[1]},
      hxp : {HeroXpRange(enemy.rarity)[1]},
      txp : {TrainerXpRange(enemy.rarity)[2]},
      amt : IF p.xp + TrainerXpRange(enemy.rarity)[2] >= xp_required_for_level(p.level)
            THEN ContractAmounts ELSE {2},
      drops : DropSeqs(enemy, SpecDropCounts),
      boss_coins : BossCoinRolls(p.badge) ]

\* ------------------------------------------------------------ entry points
\* the monsters /explore and /boss materialize in the model
ExploreLevels == {5, 10}
BossLevels == {35}

ExploreMonster(level) ==
    build_instance_from_template(MonsterBase, MonsterSkills, "common", "water", 0, level)

BossMonster(level) ==
    build_instance_from_template(MonsterBase, MonsterSkills, "rare", "water", 0, level)

\* a BattleView whose construction credits a coin to the ledger
NewView_Credit(user, hero, enemy, msg, carry) ==
    [ user_id |-> user, player_hero |-> hero, enemy |-> enemy, msg |-> msg,
      total_coins |-> carry.total_coins + 1,
      total_trainer_xp |-> carry.total_trainer_xp,
      total_hero_xp |-> carry.total_hero_xp ]

\* BattleView.__init__
NewView(user, hero, enemy, msg, carry) ==
    [ user_id |-> user, player_hero |-> hero, enemy |-> enemy, msg |-> msg,
      total_coins |-> carry.total_coins,
      total_trainer_xp |-> carry.total_trainer_xp,
      total_hero_xp |-> carry.total_hero_xp ]

NoCarry == [total_coins |-> 0, total_trainer_xp |-> 0, total_hero_xp |-> 0]

\* BattleView._carry_state (reward_log and drop_summary are shared objects)
carry_state(v) ==
    [ total_coins |-> v.total_coins,
      total_trainer_xp |-> v.total_trainer_xp,
      total_hero_xp |-> v.total_hero_xp ]

NewMsg(owner, isBoss, v) ==
    [ owner |-> owner, boss |-> isBoss,
      comp |-> [kind |-> "battle", view |-> v, opts |-> {}],
      shown |-> "battle", summary |-> NoSummary,
      defeats |-> 0, victories |-> 0, ledger |-> ZeroSum ]

\* whether a move handler of message m is suspended (its reply not completed)
MoveSuspended(m) == \E t \in tasks : t.msg = m /\ t.op = "move"

\* what is recorded of the interaction just handled: how it ended, whether
\* its user is someone other than the player who started the session, and
\* whether it ran while a move handler of the same message was suspended
Note(res, foreign, overlap) == [res |-> res, foreign |-> foreign, overlap |-> overlap]

\* explore's monster encounter followed by start_battle: a new enemy, a new
\* BattleView for the lead hero, shown on a new message.  No check is made
\* for a battle of the same player that is still open.
StartBattle(u, L) ==
    /\ Len(enemies) < L.battles
    /\ Len(views) < L.views
    /\ ActiveTeam(u) # <<>>
    /\ \E lvl \in L.levels :
         /\ enemies' = Append(enemies, ExploreMonster(lvl))
         /\ views' = Append(views, NewView(u, ActiveTeam(u)[1], Len(enemies) + 1,
                                           Len(msgs) + 1, NoCarry))
    /\ msgs' = Append(msgs, NewMsg(u, FALSE, Len(views) + 1))
    /\ drop_summary' = Append(drop_summary, [i \in Materials |-> 0])
    /\ last' = Note("ok", FALSE, FALSE)
    /\ lastTurn' = NoTurn
    /\ UNCHANGED <<players, pc, tasks, phaseSum, pure>>

\* /boss: stores a fresh boss_battle (team, index 0) in the player record and
\* saves it; only then the active team is looked at.  A player without a
\* team gets a notice and no battle, the stored boss_battle stays.  With a
\* team a BattleView against team[0] opens on a new message.
Boss(u, L) ==
    /\ Len(enemies) < L.battles
    /\ Len(views) < L.views
    /\ \E n \in 3..MaxBossTeam, lvl \in BossLevels :
         /\ players' = [players EXCEPT ![u].boss_battle =
                          [on |-> TRUE, index |-> 0, size |-> n,
                           first |-> Len(enemies) + 1]]
         /\ enemies' = Append(enemies, BossMonster(lvl))
    /\ phaseSum' = [phaseSum EXCEPT ![u] = ZeroSum]
    /\ IF ActiveTeam(u) = <<>>
       THEN UNCHANGED <<views, msgs, drop_summary>>
       ELSE /\ views' = Append(views, NewView(u, ActiveTeam(u)[1], Len(enemies) + 1,
                                              Len(msgs) + 1, NoCarry))
            /\ msgs' = Append(msgs, NewMsg(u, TRUE, Len(views) + 1))
            /\ drop_summary' = Append(drop_summary, [i \in Materials |-> 0])
    /\ last' = Note("ok", FALSE, FALSE)
    /\ lastTurn' = NoTurn
    /\ UNCHANGED <<pc, tasks, pure>>

\* --------------------------------------------------------- the components
\* what each view puts on its message: BattleView one button per move of its
\* hero plus Retreat and Swap; the two swap menus a single select.
MoveNames(hero) == {hero.moveset[i].move : i \in 1..Len(hero.moveset)}

Components(comp) ==
    IF comp.kind = "battle"
    THEN MoveNames(pc[views[comp.view].player_hero]) \cup {"Retreat", "Swap"}
    ELSE IF comp.kind \in {"swap", "auto"} THEN {"Select"}
    ELSE {}

\* BattleView.interaction_check; SwapSelect and AutoSwapView define none,
\* so the View default (accept everyone) applies to them.
interaction_check(comp, actor) ==
    IF comp.kind = "battle" THEN actor = views[comp.view].user_id ELSE TRUE

CanStart(L) == Cardinality(tasks) < L.inflight

Reject(m, actor) ==
    /\ last' = Note("rejected", actor # msgs[m].owner, FALSE)
    /\ lastTurn' = NoTurn
    /\ UNCHANGED <<players, pc, enemies, views, drop_summary, msgs, tasks,
                   phaseSum, pure>>

\* heroes of the acting player's active team (players[user]["pc"] filtered)
TeamHeroes(u) == {h \in Heroes : \E i \in 1..Len(ActiveTeam(u)) : ActiveTeam(u)[i] = h}

\* --------------------------------------------------------------- Retreat
\* run_callback: only the reply, which removes the components.
Retreat(m, actor, L) ==
    /\ m \in 1..Len(msgs)
    /\ "Retreat" \in Components(msgs[m].comp)
    /\ IF ~interaction_check(msgs[m].comp, actor)
       THEN Reject(m, actor)
       ELSE /\ CanStart(L)
            /\ tasks' = tasks \cup {[msg |-> m, op |-> "retreat", comp |-> NoComp,
                                     shown |-> "retreat", summary |-> NoSummary]}
            /\ last' = Note("ok", actor # msgs[m].owner, MoveSuspended(m))
            /\ lastTurn' = NoTurn
            /\ UNCHANGED <<players, pc, enemies, views, drop_summary, msgs,
                           phaseSum, pure>>

\* ------------------------------------------------------------ Swap button
\* swap_callback: the healthy team members other than the active hero; with
\* none, an ephemeral notice; otherwise the reply shows a SwapSelect.
SwapOpen(m, actor, L) ==
    /\ m \in 1..Len(msgs)
    /\ "Swap" \in Components(msgs[m].comp)
    /\ IF ~interaction_check(msgs[m].comp, actor)
       THEN Reject(m, actor)
       ELSE LET v == views[msgs[m].comp.view]
                valid_swaps == {h \in TeamHeroes(actor) :
                                  h # v.player_hero /\ pc[h].current_hp > 0}
            IN  IF valid_swaps = {}
                THEN Reject(m, actor)
                ELSE /\ CanStart(L)
                     /\ tasks' = tasks \cup
                          {[msg |-> m, op |-> "swap",
                            comp |-> [kind |-> "swap", view |-> msgs[m].comp.view,
                                      opts |-> valid_swaps],
                            shown |-> "swapmenu", summary |-> NoSummary]}
                     /\ last' = Note("ok", actor # msgs[m].owner, MoveSuspended(m))
                     /\ lastTurn' = NoTurn
                     /\ UNCHANGED <<players, pc, enemies, views, drop_summary,
                                    msgs, phaseSum, pure>>

\* ------------------------------------------------ the two select callbacks
\* SwapSelect.select_callback and AutoSwapView.select_callback: the parent's
\* player_hero becomes the chosen hero, and a new BattleView, owned by the
\* user of this interaction, carries the parent's totals; the reply shows it.
Select(m, actor, h, L) ==
    /\ m \in 1..Len(msgs)
    /\ "Select" \in Components(msgs[m].comp)
    /\ h \in msgs[m].comp.opts
    /\ interaction_check(msgs[m].comp, actor)
    /\ CanStart(L)
    /\ Len(views) < L.views
    /\ LET parent == msgs[m].comp.view
       IN  /\ views' = Append([views EXCEPT ![parent].player_hero = h],
                              NewView(actor, h, views[parent].enemy, m,
                                      carry_state(views[parent])))
           /\ tasks' = tasks \cup
                {[msg |-> m, op |-> "select",
                  comp |-> [kind |-> "battle", view |-> Len(views) + 1, opts |-> {}],
                  shown |-> "battle", summary |-> NoSummary]}
    /\ last' = Note("ok", actor # msgs[m].owner, MoveSuspended(m))
    /\ lastTurn' = NoTurn
    /\ UNCHANGED <<players, pc, enemies, drop_summary, msgs, phaseSum, pure>>

\* the phase rewards of a boss run so far plus those rolled at one defeat
AddRolled(sum, rolled) ==
    [coins |-> sum.coins + rolled.coins,
     txp |-> sum.txp + rolled.txp,
     hxp |-> sum.hxp + rolled.hxp,
     drops |-> [i \in Materials |-> sum.drops[i] + rolled.drops[i]],
     defeats |-> sum.defeats + 1]

\* -------------------------------------------------------------- move button
\* the accuracy draws of random.randint(1, 100) a turn explores
TurnDraws == {1, 100}

Reply(m, comp, shown, summary) ==
    [msg |-> m, op |-> "move", comp |-> comp, shown |-> shown, summary |-> summary]

\* process_turn up to the reply it awaits: the pass, then, by its outcome,
\* _handle_rewards, the faint branch, or the ongoing embed.
Move(m, actor, pmove, L) ==
    /\ m \in 1..Len(msgs)
    /\ msgs[m].comp.kind = "battle"
    /\ pmove \in Components(msgs[m].comp) \ {"Retreat", "Swap"}
    /\ IF ~interaction_check(msgs[m].comp, actor)
       THEN Reject(m, actor)
       ELSE
         /\ CanStart(L)
         /\ LET vid == msgs[m].comp.view
                v == views[vid]
                hero == pc[v.player_hero]
                enemy == enemies[v.enemy]
            IN \E emove \in MoveNames(enemy),
                  order \in TurnOrders(hero.stats.speed, enemy.stats.speed),
                  d1 \in TurnDraws, d2 \in TurnDraws :
                 LET res == RunPass(order, hero, enemy, pmove, emove, d1, d2)
                     pcA == [pc EXCEPT ![v.player_hero].current_hp = res.php]
                     enA == [enemies EXCEPT ![v.enemy].current_hp = res.ehp]
                 IN
                 /\ lastTurn' = [msg |-> m,
                                 pspeed |-> hero.stats.speed,
                                 espeed |-> enemy.stats.speed,
                                 choices |-> TurnOrders(hero.stats.speed,
                                                        enemy.stats.speed),
                                 order |-> order, acts |-> res.acts,
                                 ended |-> res.ended]
                 /\ last' = Note("ok", actor # msgs[m].owner, MoveSuspended(m))
                 /\ enemies' = enA
                 /\ IF res.ended = "enemy_down"
                    THEN \E roll \in Rolls(enemy, players[v.user_id]) :
                           LET r == HandleRewards(v, players, pcA, enA,
                                                  drop_summary, roll)
                           IN  /\ players' = r.players
                               /\ pc' = r.pc
                               /\ views' = [views EXCEPT ![vid] = r.view]
                               /\ drop_summary' = [drop_summary EXCEPT ![m] = r.drops]
                               /\ msgs' = [msgs EXCEPT
                                    ![m].defeats = @ + 1,
                                    ![m].victories = IF r.hasNext THEN @ ELSE @ + 1,
                                    ![m].ledger = IF r.cleared
                                                  THEN AddRolled(phaseSum[v.user_id], r.rolled)
                                                  ELSE @]
                               /\ phaseSum' =
                                    IF r.inBoss
                                    THEN [phaseSum EXCEPT ![v.user_id] =
                                            AddRolled(@, r.rolled)]
                                    ELSE phaseSum
                               /\ tasks' = tasks \cup
                                    {IF r.hasNext
                                     THEN Reply(m, NoComp, "bossnext", NoSummary)
                                     ELSE Reply(m, NoComp, "victory", r.summary)}
                    ELSE
                      /\ pc' = pcA
                      /\ UNCHANGED <<players, views, drop_summary, msgs, phaseSum>>
                      /\ IF res.ended = "player_down"
                         THEN LET healthy == {h \in TeamHeroes(v.user_id) :
                                                pcA[h].current_hp > 0}
                              IN  tasks' = tasks \cup
                                    {IF healthy = {}
                                     THEN Reply(m, NoComp, "defeat", NoSummary)
                                     ELSE Reply(m, [kind |-> "auto", view |-> vid,
                                                    opts |-> healthy],
                                                "autoswap", NoSummary)}
                         ELSE tasks' = tasks \cup
                                {Reply(m, [kind |-> "battle", view |-> vid,
                                           opts |-> {}],
                                       "battle", NoSummary)}
         /\ pure' = pure

\* the reply of a suspended handler completes: the message shows what it sent
ReplyDone(t) ==
    /\ t \in tasks
    /\ tasks' = tasks \ {t}
    /\ msgs' = [msgs EXCEPT ![t.msg].comp = t.comp,
                            ![t.msg].shown = t.shown,
                            ![t.msg].summary = t.summary]
    /\ last' = Note("reply", FALSE, FALSE)
    /\ lastTurn' = NoTurn
    /\ UNCHANGED <<players, pc, enemies, views, drop_summary, phaseSum, pure>>

AllMoveNames == {"Slash"}

\* what a specification explores: how many battle messages and BattleViews
\* are created, how many handlers may be suspended at once, who interacts
MainLimits ==
    [battles |-> MaxBattles, views |-> MaxViews, inflight |-> 1,
     levels |-> ExploreLevels, actors |-> Users]

NextOf(L) ==
    \/ \E u \in L.actors : StartBattle(u, L)
    \/ \E u \in L.actors : Boss(u, L)
    \/ \E m \in 1..L.battles, a \in L.actors, mv \in AllMoveNames : Move(m, a, mv, L)
    \/ \E m \in 1..L.battles, a \in L.actors : Retreat(m, a, L)
    \/ \E m \in 1..L.battles, a \in L.actors : SwapOpen(m, a, L)
    \/ \E m \in 1..L.battles, a \in L.actors, h \in Heroes : Select(m, a, h, L)
    \/ \E t \in tasks : ReplyDone(t)

Next == NextOf(MainLimits)

\* one session at a time, each interaction handled to completion before the
\* next is delivered; any user may interact with the message
Spec == Init /\ [][Next]_vars

\* one session whose buttons are pressed again while a handler is suspended
RaceLimits ==
    [battles |-> 1, views |-> 1, inflight |-> MaxInFlight,
     levels |-> ExploreLevels, actors |-> {"u1"}]

NextRace ==
    \/ \E u \in RaceLimits.actors : StartBattle(u, RaceLimits)
    \/ \E u \in RaceLimits.actors : Boss(u, RaceLimits)
    \/ \E a \in RaceLimits.actors, mv \in AllMoveNames : Move(1, a, mv, RaceLimits)
    \/ \E a \in RaceLimits.actors : Retreat(1, a, RaceLimits)
    \/ \E t \in tasks : ReplyDone(t)

SpecRace == Init /\ [][NextRace]_vars

\* a player who starts one battle after another
RunLimits ==
    [battles |-> RunBattles, views |-> RunBattles, inflight |-> 1,
     levels |-> {5}, actors |-> {"u1"}]

NextRun == NextOf(RunLimits)

SpecRun == Init /\ [][NextRun]_vars

\* ------------------------------------------------------------ idle timeout
\* discord.ui.View with timeout=n: n seconds after the last interaction it
\* dispatched, the view stops and leaves the view store, then on_timeout runs.
\* BattleView (120), the swap menu (30) and AutoSwapView (30) define no
\* on_timeout, so nothing else happens; the message keeps what it shows.
TimedOut_StillListening(comp) == comp

TimedOut(comp) == [kind |-> "expired", view |-> comp.view, opts |-> {}]

\* the view on message m times out: no handler of m is suspended, so the
\* window passed without an action
IdleTimeout(m) ==
    /\ m \in 1..Len(msgs)
    /\ msgs[m].comp.kind \in {"battle", "swap", "auto"}
    /\ ~\E t \in tasks : t.msg = m
    /\ msgs' = [msgs EXCEPT ![m].comp = TimedOut(@)]
    /\ last' = Note("timeout", FALSE, FALSE)
    /\ lastTurn' = NoTurn
    /\ UNCHANGED <<players, pc, enemies, views, drop_summary, tasks, phaseSum, pure>>

IdleLimits ==
    [battles |-> IdleBattles, views |-> IdleBattles, inflight |-> 1,
     levels |-> {5}, actors |-> {"u1"}]

NextIdle ==
    \/ NextOf(IdleLimits)
    \/ \E m \in 1..IdleLimits.battles : IdleTimeout(m)

\* a player whose sessions may be left idle
SpecIdle == Init /\ [][NextIdle]_vars

\* ------------------------------------------------- resolve_move on its own
\* one call of resolve_move: an attacker with a single move "Slash" against
\* a defender, for every accuracy draw
PureInputs ==
    [ phase : {"ready"},
      name : {"Slash", "Strike"},
      attack : {0, 70}, magic : {35},
      defense : {0, 40, 300}, hp : {1, 80},
      type : {"Physical", "Magical", "Ranged"},
      power : {0, 50}, numeric : BOOLEAN,
      acc : {0, 50, 100},
      draw : {0}, outcome : {""}, dmg : {0}, hp_after : {0} ]

PureAttacker(x) ==
    [ moveset |-> << [move |-> "Slash", type |-> x.type, power |-> x.power,
                      numeric |-> x.numeric, acc |-> x.acc] >>,
      stats |-> [attack |-> x.attack, magic |-> x.magic] ]

PureDefender(x) ==
    [ current_hp |-> x.hp, stats |-> [defense |-> x.defense] ]

InitMove == InitBattle /\ pure \in PureInputs

ResolveMoveStep ==
    /\ pure.phase = "ready"
    /\ \E draw \in 1..100 :
         LET r == resolve_move(PureAttacker(pure), PureDefender(pure), pure.name, draw)
         IN  pure' = [pure EXCEPT !.phase = "done", !.draw = draw,
                                  !.outcome = r.outcome, !.dmg = r.dmg,
                                  !.hp_after = r.hp]
    /\ UNCHANGED <<players, pc, enemies, views, drop_summary, msgs, tasks, last,
                   lastTurn, phaseSum>>

NextMove == ResolveMoveStep

SpecMove == InitMove /\ [][NextMove]_vars

\* ------------------------------------------------ award_entity_xp on its own
\* one call of award_entity_xp on a hero of the Aiden template: the entity
\* as build_instance_from_template makes it at a level, with some xp already
\* gathered and some of its hp left
XpLevels == {1, 2, 5, 37, 98, 99, 100}
XpStarts == {0, 50}
XpGains == {0, 1, 363, 5000, 115000, 300000, 3000000}
XpIvs == {0, 31}
HpLefts == {"none", "one", "full"}

XpInputs ==
    [ phase : {"xp_ready"}, level : XpLevels, xp : XpStarts, gain : XpGains,
      iv : XpIvs, left : HpLefts ]

XpEntity(x) ==
    LET e == build_instance_from_template(HeroBase, HeroSkills, "uncommon",
                                          "earth", x.iv, x.level)
    IN  [e EXCEPT !.xp = x.xp,
                  !.current_hp = IF x.left = "none" THEN 0
                                 ELSE IF x.left = "one" THEN 1
                                 ELSE e.stats.hp]

InitXp == InitBattle /\ pure \in XpInputs

AwardXpStep ==
    /\ pure.phase = "xp_ready"
    /\ pure' = [phase |-> "xp_done", before |-> XpEntity(pure), gain |-> pure.gain,
                after |-> award_entity_xp(XpEntity(pure), pure.gain, HeroBase),
                logged |-> award_entity_xp_log(XpEntity(pure), pure.gain)]
    /\ UNCHANGED <<players, pc, enemies, views, drop_summary, msgs, tasks, last,
                   lastTurn, phaseSum>>

NextXp == AwardXpStep

SpecXp == InitXp /\ [][NextXp]_vars

\* ------------------------------------------------ calc_hp and calc_stat alone
\* the two stat formulas evaluated while one of IV, EV and level is raised
\* by one at a time, from IV 0, EV 0, level 1 up to MaxIv, MaxEv, MaxLevel
StatBases == {0, 45, 80}

StatPoint(base, iv, ev, level) ==
    [ phase |-> "stat", base |-> base, iv |-> iv, ev |-> ev, level |-> level,
      hp |-> calc_hp(base, iv, ev, level),
      stat |-> calc_stat(base, iv, ev, level) ]

InitStat ==
    /\ InitBattle
    /\ \E base \in StatBases : pure = StatPoint(base, 0, 0, 1)

StatFrame ==
    UNCHANGED <<players, pc, enemies, views, drop_summary, msgs, tasks, last,
                lastTurn, phaseSum>>

RaiseIv ==
    /\ pure.phase = "stat"
    /\ pure.iv < MaxIv
    /\ pure' = StatPoint(pure.base, pure.iv + 1, pure.ev, pure.level)
    /\ StatFrame

RaiseEv ==
    /\ pure.phase = "stat"
    /\ pure.ev < MaxEv
    /\ pure' = StatPoint(pure.base, pure.iv, pure.ev + 1, pure.level)
    /\ StatFrame

RaiseLevel ==
    /\ pure.phase = "stat"
    /\ pure.level < MaxLevel
    /\ pure' = StatPoint(pure.base, pure.iv, pure.ev, pure.level + 1)
    /\ StatFrame

NextStat == RaiseIv \/ RaiseEv \/ RaiseLevel

SpecStat == InitStat /\ [][NextStat]_vars

\* ------------------------------------------------- one hero between battles
\* The commands that change a hero outside a session, and what a session
\* does to it, applied to one hero of the Aiden template: /elixir, /heal,
\* the xp of a victory, a hit taken, /summon and a recruitment (the last two
\* put a new hero under observation).  pure.op names the last operation and
\* pure.was the hero before it.
ZeroStats == [hp |-> 0, attack |-> 0, defense |-> 0, magic |-> 0, speed |-> 0]

ElixirAmounts == {-1, 0, 1, 2, 200}
VictoryXp == {217, 3017, 30040}
SummonLevels == {50, 70}
RecruitLevels == {5}
HeroIvs == {0, 31}

FreshHero(iv, level) ==
    build_instance_from_template(HeroBase, HeroSkills, "uncommon", "earth", iv, level)

\* a hero recruited at level 5, or one that has since fought its way to 99
HeroStarts == {FreshHero(iv, level) : iv \in HeroIvs, level \in {5, 99}}

HeroState(hero, was, op, has_base, base_stats, elixirs, potions, ops) ==
    [ phase |-> "hero", hero |-> hero, was |-> was, op |-> op,
      has_base |-> has_base, base_stats |-> base_stats,
      elixirs |-> elixirs, potions |-> potions, ops |-> ops ]

InitHero ==
    /\ InitBattle
    /\ \E h \in HeroStarts :
         pure = HeroState(h, h, "start", FALSE, ZeroStats, MaxElixirs, MaxPotions, 0)

HeroFrame ==
    UNCHANGED <<players, pc, enemies, views, drop_summary, msgs, tasks, last,
                lastTurn, phaseSum>>

\* /elixir: max_usable = min(amount or 1, elixirs, 100 - level); the level
\* rises by it and the stats are recomputed from _base_stats, which the first
\* use sets to a copy of the hero's stats of that moment.
ElixirUse(amount) ==
    /\ pure.phase = "hero" /\ pure.ops < MaxOps
    /\ pure.elixirs > 0
    /\ pure.hero.level < 100
    /\ LET asked == IF amount = 0 THEN 1 ELSE amount
           max_usable == Min2(Min2(asked, pure.elixirs), 100 - pure.hero.level)
           base == IF pure.has_base THEN pure.base_stats ELSE pure.hero.stats
       IN  /\ max_usable > 0
           /\ pure' = HeroState(
                recalc_stats_from_base(
                  [pure.hero EXCEPT !.level = @ + max_usable], base),
                pure.hero, "elixir", TRUE, base,
                pure.elixirs - max_usable, pure.potions, pure.ops + 1)
    /\ HeroFrame

\* /heal: a team hero below its max hp is set to max hp, for one potion
HealUse ==
    /\ pure.phase = "hero" /\ pure.ops < MaxOps
    /\ pure.potions > 0
    /\ pure.hero.current_hp < pure.hero.stats.hp
    /\ pure' = HeroState([pure.hero EXCEPT !.current_hp = pure.hero.stats.hp],
                         pure.hero, "heal", pure.has_base, pure.base_stats,
                         pure.elixirs, pure.potions - 1, pure.ops + 1)
    /\ HeroFrame

\* the hero xp of a victory (_handle_rewards awards none at level 100)
VictoryAward(gain) ==
    /\ pure.phase = "hero" /\ pure.ops < MaxOps
    /\ pure.hero.level < 100
    /\ pure' = HeroState(award_entity_xp(pure.hero, gain, HeroBase),
                         pure.hero, "xp", pure.has_base, pure.base_stats,
                         pure.elixirs, pure.potions, pure.ops + 1)
    /\ HeroFrame

\* an enemy move that hits the hero
HitTaken(level) ==
    /\ pure.phase = "hero" /\ pure.ops < MaxOps
    /\ pure.hero.current_hp > 0
    /\ pure' = HeroState(
                 [pure.hero EXCEPT !.current_hp =
                    resolve_move(BossMonster(level), pure.hero, "Splash", 1).hp],
                 pure.hero, "hit", pure.has_base, pure.base_stats,
                 pure.elixirs, pure.potions, pure.ops + 1)
    /\ HeroFrame

\* /summon: the instance is built at the template's default level 10, then
\* its level is set to random.randint(50, 70) and its hp to its max hp
Summon(iv, level) ==
    /\ pure.phase = "hero" /\ pure.ops < MaxOps
    /\ LET inst == build_instance_from_template(HeroBase, HeroSkills, "legendary",
                                                "earth", iv, 10)
       IN  pure' = HeroState([inst EXCEPT !.level = level,
                                          !.current_hp = inst.stats.hp],
                             pure.hero, "summon", FALSE, ZeroStats,
                             pure.elixirs, pure.potions, pure.ops + 1)
    /\ HeroFrame

\* a successful recruitment: a copy of the encounter at full hp
Recruit(iv, level) ==
    /\ pure.phase = "hero" /\ pure.ops < MaxOps
    /\ LET encounter == FreshHero(iv, level)
       IN  pure' = HeroState([encounter EXCEPT !.current_hp = encounter.stats.hp],
                             pure.hero, "recruit", FALSE, ZeroStats,
                             pure.elixirs, pure.potions, pure.ops + 1)
    /\ HeroFrame

NextHero ==
    \/ \E amount \in ElixirAmounts : ElixirUse(amount)
    \/ HealUse
    \/ \E gain \in VictoryXp : VictoryAward(gain)
    \/ \E level \in BossLevels : HitTaken(level)
    \/ \E iv \in HeroIvs, level \in SummonLevels : Summon(iv, level)
    \/ \E iv \in HeroIvs, level \in RecruitLevels : Recruit(iv, level)

SpecHero == InitHero /\ [][NextHero]_vars

\* ------------------------------------------------ roster and active team
\* One player's roster (p["pc"]), active team and locked flags under the
\* commands that edit them.  Unique ids are numbered in the order of creation,
\* so the order of p["pc"] is the order of the numbers.  An id argument is a
\* number (9 is an id nobody has), or 0 for the bare prefix "h" that every
\* unique id starts with.

SlotArgs == {0, 1, 2, 7}

IdArgs == {0, 1, 2, 9}

SeqRange(q) == { q[i] : i \in 1 .. Len(q) }

\* next((h for h in p["pc"] if h["unique_id"].startswith(id) ...), None) over
\* the heroes in S; 0 stands for None
FirstMatch(S, arg) ==
    IF arg = 0
      THEN IF S = {} THEN 0 ELSE CHOOSE h \in S : \A g \in S : h <= g
      ELSE IF arg \in S THEN arg ELSE 0

\* list.remove(x): drops the first occurrence
RemoveFirst(q, x) ==
    LET i == CHOOSE k \in 1 .. Len(q) : q[k] = x /\ \A j \in 1 .. k - 1 : q[j] # x
    IN  [ k \in 1 .. Len(q) - 1 |-> IF k < i THEN q[k] ELSE q[k + 1] ]

SlotHero(t, slot) ==
    IF slot >= 1 /\ slot <= Len(t.team) /\ t.team[slot] \in t.roster
      THEN t.team[slot] ELSE 0

InitTeam ==
    /\ InitBattle
    /\ pure = [ phase |-> "team", roster |-> {}, team |-> <<>>, locked |-> {},
                starter_open |-> TRUE, clear_open |-> FALSE, next |-> 1,
                contracts |-> StartContracts, ops |-> 0 ]

TeamFrame ==
    UNCHANGED <<players, pc, enemies, views, drop_summary, msgs, tasks, last,
                lastTurn, phaseSum>>

\* a starter button: the new hero joins the roster and the active team
AddStarter ==
    /\ pure.phase = "team"
    /\ pure.ops < MaxTeamOps
    /\ pure.starter_open
    /\ pure.next <= MaxHeroes
    /\ pure' = [ pure EXCEPT !.ops = @ + 1, !.roster = @ \cup {pure.next},
                             !.team = Append(@, pure.next),
                             !.starter_open = FALSE,
                             !.next = @ + 1 ]
    /\ TeamFrame

\* the starter prompt times out unanswered
StarterTimeout ==
    /\ pure.phase = "team"
    /\ pure.ops < MaxTeamOps
    /\ pure.starter_open
    /\ pure' = [ pure EXCEPT !.ops = @ + 1, !.starter_open = FALSE ]
    /\ TeamFrame

\* a contract button of a hero encounter: one contract is spent; on success
\* the hero joins the roster, and the active team if it has fewer than 6
AttemptRecruit(success) ==
    /\ pure.phase = "team"
    /\ pure.ops < MaxTeamOps
    /\ pure.contracts > 0
    /\ pure.next <= MaxHeroes
    /\ IF success
         THEN pure' = [ pure EXCEPT
                          !.ops = @ + 1,
                          !.contracts = @ - 1,
                          !.roster = @ \cup {pure.next},
                          !.team = IF Len(@) < 6 THEN Append(@, pure.next) ELSE @,
                          !.next = @ + 1 ]
         ELSE pure' = [ pure EXCEPT !.ops = @ + 1, !.contracts = @ - 1 ]
    /\ TeamFrame

\* /partyadd and /teamadd
PartyAdd(cmd, id) ==
    /\ pure.phase = "team"
    /\ pure.ops < MaxTeamOps
    /\ LET hero == FirstMatch(pure.roster, id)
       IN  IF \/ pure.roster = {}
              \/ hero = 0
              \/ hero \in SeqRange(pure.team)
              \/ Len(pure.team) >= 6
             THEN pure' = [ pure EXCEPT !.ops = @ + 1 ]
             ELSE pure' = [ pure EXCEPT !.ops = @ + 1, !.team = Append(@, hero) ]
    /\ TeamFrame

\* /partyremove and /teamremove, by slot number (by_slot) or by id
PartyRemove(cmd, by_slot, arg) ==
    /\ pure.phase = "team"
    /\ pure.ops < MaxTeamOps
    /\ LET hero == IF by_slot
                     THEN SlotHero(pure, arg)
                     ELSE FirstMatch(pure.roster \cap SeqRange(pure.team), arg)
       IN  IF \/ pure.team = <<>>
              \/ hero = 0
              \/ hero \in pure.locked
             THEN pure' = [ pure EXCEPT !.ops = @ + 1 ]
             ELSE pure' = [ pure EXCEPT !.ops = @ + 1, !.team = RemoveFirst(@, hero) ]
    /\ TeamFrame

\* /move: exchange two slots unless one of the two heroes is locked
MoveSlots(from_slot, to_slot) ==
    /\ pure.phase = "team"
    /\ pure.ops < MaxTeamOps
    /\ LET team == pure.team
           bad  == \/ team = <<>>
                   \/ from_slot < 1 \/ from_slot > Len(team)
                   \/ to_slot < 1 \/ to_slot > Len(team)
       IN  IF bad
             THEN pure' = [ pure EXCEPT !.ops = @ + 1 ]
             ELSE LET hero_a == SlotHero(pure, from_slot)
                      hero_b == SlotHero(pure, to_slot)
                  IN  IF hero_a \in pure.locked \/ hero_b \in pure.locked
                        THEN pure' = [ pure EXCEPT !.ops = @ + 1 ]
                        ELSE pure' = [ pure EXCEPT
                                         !.ops = @ + 1,
                                         !.team = [ @ EXCEPT ![from_slot] = team[to_slot],
                                                             ![to_slot] = team[from_slot] ] ]
    /\ TeamFrame

\* /barracksclear shows the confirmation
BarracksClear ==
    /\ pure.phase = "team"
    /\ pure.ops < MaxTeamOps
    /\ pure' = [ pure EXCEPT !.ops = @ + 1, !.clear_open = TRUE ]
    /\ TeamFrame

\* its Yes button: the roster keeps the heroes whose id is in the active team
ConfirmClear ==
    /\ pure.phase = "team"
    /\ pure.ops < MaxTeamOps
    /\ pure.clear_open
    /\ pure' = [ pure EXCEPT !.ops = @ + 1, !.roster = @ \cap SeqRange(pure.team),
                             !.locked = @ \cap SeqRange(pure.team),
                             !.clear_open = FALSE ]
    /\ TeamFrame

\* /lock (flag TRUE) and /unlock (flag FALSE), by slot number or by id
SetLocked(flag, by_slot, arg) ==
    /\ pure.phase = "team"
    /\ pure.ops < MaxTeamOps
    /\ LET hero == IF by_slot THEN SlotHero(pure, arg)
                              ELSE FirstMatch(pure.roster, arg)
       IN  IF pure.roster = {} \/ hero = 0
             THEN pure' = [ pure EXCEPT !.ops = @ + 1 ]
             ELSE pure' = [ pure EXCEPT
                              !.ops = @ + 1,
                              !.locked = IF flag THEN @ \cup {hero} ELSE @ \ {hero} ]
    /\ TeamFrame

NextTeam ==
    \/ AddStarter
    \/ StarterTimeout
    \/ \E success \in BOOLEAN : AttemptRecruit(success)
    \/ \E cmd \in {"partyadd", "teamadd"}, id \in IdArgs : PartyAdd(cmd, id)
    \/ \E cmd \in {"partyremove", "teamremove"}, by_slot \in BOOLEAN,
          arg \in SlotArgs \cup IdArgs : PartyRemove(cmd, by_slot, arg)
    \/ \E from_slot \in SlotArgs, to_slot \in SlotArgs : MoveSlots(from_slot, to_slot)
    \/ BarracksClear
    \/ ConfirmClear
    \/ \E flag \in BOOLEAN, by_slot \in BOOLEAN, arg \in SlotArgs \cup IdArgs :
         SetLocked(flag, by_slot, arg)

SpecTeam == InitTeam /\ [][NextTeam]_vars

\* ------------------------------------------- the material drops on their own
\* The drop loop of _handle_rewards for one defeated enemy: num_drops passes,
\* each with a tier roll and a pick from the pool.  An enemy's element is ""
\* when the entity has none; the catalog's keys are ElementTables.
ElementTables == <<"water">>

DropElements == {"water", "earth", ""}

\* fallback_ele and enemy_ele (1672-1674)
EnemyEle(element) ==
    IF element # "" THEN element
    ELSE IF ElementTables # <<>> THEN ElementTables[1] ELSE ""

InitDrops ==
    /\ InitBattle
    /\ \E element \in DropElements, rarity \in {"common", "uncommon", "rare", "legendary"},
          n \in 1 .. 3 :
         pure = [ phase |-> "drops", element |-> element, rarity |-> rarity,
                  num_drops |-> n, passes |-> 0, got |-> <<>>,
                  bag |-> [i \in Materials |-> 0] ]

\* one pass of the loop: the chosen tier's pool, else every tier of the
\* element, else nothing (continue)
DropPass(roll) ==
    /\ pure.phase = "drops"
    /\ pure.passes < pure.num_drops
    /\ LET chosen == AdjacentRarity(pure.rarity, roll)
           pool == DropPool(EnemyEle(pure.element), chosen)
       IN  IF pool = <<>>
             THEN pure' = [ pure EXCEPT !.passes = @ + 1 ]
             ELSE \E k \in 1 .. Len(pool) :
                    pure' = [ pure EXCEPT
                                !.passes = @ + 1,
                                !.got = Append(@, [item |-> pool[k], tier |-> chosen]),
                                !.bag = [@ EXCEPT ![pool[k]] = @ + 1] ]
    /\ UNCHANGED <<players, pc, enemies, views, drop_summary, msgs, tasks, last,
                   lastTurn, phaseSum>>

NextDrops == \E roll \in AdjRolls : DropPass(roll)

SpecDrops == InitDrops /\ [][NextDrops]_vars

\* --------------------------------------------------------- relic charging
\* One player's relic: /use and its confirmation, the relic block at the end
\* of _handle_rewards, /summon's consumption of a filled relic.  The block
\* reads the key "respawn_orb", which no command writes; a record loaded from
\* players.json may hold one.  The bag holds the relic under its lowercase
\* name.
NoCharge == [on |-> FALSE, kills |-> 0]

InitRelic ==
    /\ InitBattle
    /\ \E relic \in 1 .. 2, orb \in {NoCharge, [on |-> TRUE, kills |-> RelicGoal - 2]} :
         pure = [ phase |-> "relic", relic |-> relic, filled |-> 0,
                  relic_charge |-> NoCharge, respawn_orb |-> orb,
                  confirm_open |-> FALSE, defeats |-> 0,
                  op |-> "load" ]

RelicFrame ==
    UNCHANGED <<players, pc, enemies, views, drop_summary, msgs, tasks, last,
                lastTurn, phaseSum>>

\* /use <relic>: with the relic in the bag, the confirmation is shown
Use ==
    /\ pure.phase = "relic"
    /\ pure.relic > 0
    /\ ~pure.confirm_open
    /\ pure' = [ pure EXCEPT !.op = "use", !.confirm_open = TRUE ]
    /\ RelicFrame

\* its Yes button
ConfirmUse ==
    /\ pure.phase = "relic"
    /\ pure.confirm_open
    /\ pure' = [ pure EXCEPT !.op = "confirm", !.relic_charge = [on |-> TRUE, kills |-> 0],
                             !.confirm_open = FALSE ]
    /\ RelicFrame

\* its No button
CancelUse ==
    /\ pure.phase = "relic"
    /\ pure.confirm_open
    /\ pure' = [ pure EXCEPT !.op = "cancel", !.confirm_open = FALSE ]
    /\ RelicFrame

\* an enemy defeat settled by _handle_rewards; final is FALSE for a boss
\* phase with a next enemy, which returns before the relic block
RelicDefeat(final) ==
    /\ pure.phase = "relic"
    /\ pure.defeats < MaxDefeats
    /\ LET orb == pure.respawn_orb
       IN  IF final /\ orb.on
             THEN IF orb.kills + 1 >= RelicGoal
                    THEN pure' = [ pure EXCEPT !.op = "defeat",
                                     !.defeats = @ + 1,
                                     !.relic = IF @ > 0 THEN @ - 1 ELSE @,
                                     !.filled = @ + 1,
                                     !.respawn_orb = NoCharge ]
                    ELSE pure' = [ pure EXCEPT !.op = "defeat", !.defeats = @ + 1,
                                               !.respawn_orb.kills = @ + 1 ]
             ELSE pure' = [ pure EXCEPT !.op = "defeat", !.defeats = @ + 1 ]
    /\ RelicFrame

\* /summon <filled relic>: consumes it
SummonRelic ==
    /\ pure.phase = "relic"
    /\ pure.filled > 0
    /\ pure' = [ pure EXCEPT !.op = "summon", !.filled = @ - 1 ]
    /\ RelicFrame

NextRelic ==
    \/ Use
    \/ ConfirmUse
    \/ CancelUse
    \/ \E final \in BOOLEAN : RelicDefeat(final)
    \/ SummonRelic

SpecRelic == InitRelic /\ [][NextRelic]_vars

\* ------------------------------------------- the account cascade on its own
\* The adventurer xp of one defeat and the level-up loop that follows it
\* (1629-1658), one pass of the loop per step, each with its own contract
\* roll.
\* a pass that pays the bonus of the level left behind
AccountLevelUp_OldLevel(p, amt) ==
    LET q == AccountCascade([p EXCEPT !.xp = xp_required_for_level(p.level)], amt)
    IN  [q EXCEPT !.xp = p.xp - xp_required_for_level(p.level),
                  !.coins = p.coins + p.level * 200]

\* one pass of the loop body on a record whose xp has reached the threshold
AccountLevelUp(p, amt) ==
    LET new_level == p.level + 1
        tier == IF new_level < 10 THEN "Contract"
                ELSE IF new_level < 20 THEN "Great Contract"
                ELSE IF new_level < 50 THEN "Ancient Contract"
                ELSE "none"
        bag1 == IF tier = "none" THEN p.bag ELSE [p.bag EXCEPT ![tier] = @ + amt]
        bag2 == IF new_level \in {10, 25, 50, 75, 100}
                THEN [bag1 EXCEPT !["Soulbound Contract"] = @ + 1]
                ELSE bag1
    IN  [p EXCEPT !.xp = p.xp - xp_required_for_level(p.level),
                  !.level = new_level,
                  !.coins = p.coins + new_level * 200,
                  !.bag = bag2]

AccountLevels == {1, 8, 9, 18, 19, 24, 48, 49, 50, 74, 99}

AccountGains == {20, 300, 2000}

ContractRolls == {2, 3, 5}

InitAccount ==
    /\ InitBattle
    /\ \E level \in AccountLevels, short \in {20, 200} :
         pure = [ phase |-> "acct", stage |-> "idle",
                  p |-> [ level |-> level,
                          xp |-> xp_required_for_level(level) - short,
                          coins |-> 0,
                          bag |-> [i \in Contracts |-> 0] ],
                  gains |-> 0, ups |-> 0 ]

AccountFrame ==
    UNCHANGED <<players, pc, enemies, views, drop_summary, msgs, tasks, last,
                lastTurn, phaseSum>>

\* p["xp"] += trainer_xp_gain
TrainerXp(gain) ==
    /\ pure.phase = "acct"
    /\ pure.stage = "idle"
    /\ pure.gains < MaxGains
    /\ pure' = [ pure EXCEPT !.stage = "loop", !.p.xp = @ + gain,
                             !.gains = @ + 1, !.ups = 0 ]
    /\ AccountFrame

\* the loop condition holds: one pass
LevelUpPass(amt) ==
    /\ pure.phase = "acct"
    /\ pure.stage = "loop"
    /\ pure.p.xp >= xp_required_for_level(pure.p.level)
    /\ pure' = [ pure EXCEPT !.p = AccountLevelUp(@, amt), !.ups = @ + 1 ]
    /\ AccountFrame

\* the loop condition fails: the cascade is over
LoopExit ==
    /\ pure.phase = "acct"
    /\ pure.stage = "loop"
    /\ pure.p.xp < xp_required_for_level(pure.p.level)
    /\ pure' = [ pure EXCEPT !.stage = "idle" ]
    /\ AccountFrame

NextAccount ==
    \/ \E gain \in AccountGains : TrainerXp(gain)
    \/ \E amt \in ContractRolls : LevelUpPass(amt)
    \/ LoopExit

SpecAccount == InitAccount /\ [][NextAccount]_vars

\* ------------------------------------------------- process_turn's pass alone
\* One call of process_turn up to the end of its execute loop, for a move
\* name that may or may not be in the hero's moveset.
TurnMoveNames == {"Slash", "SLASH", "Strike", "Splash"}

TurnHeroes ==
    { [ build_instance_from_template(HeroBase, HeroSkills, "uncommon", "earth",
                                     iv, level)
          EXCEPT !.current_hp = IF low THEN 1 ELSE @ ] :
        iv \in {0, 31}, level \in {5, 10}, low \in BOOLEAN }

TurnEnemies ==
    { ExploreMonster(5), ExploreMonster(10), BossMonster(35),
      [ExploreMonster(5) EXCEPT !.stats.speed = 8] }

InitTurn ==
    /\ InitBattle
    /\ \E hero \in TurnHeroes, enemy \in TurnEnemies, pmove \in TurnMoveNames :
         pure = [ phase |-> "turn_ready", hero |-> hero, enemy |-> enemy,
                  move_name |-> pmove ]

TurnPass ==
    /\ pure.phase = "turn_ready"
    /\ \E emove \in MoveNames(pure.enemy),
          order \in TurnOrders(pure.hero.stats.speed, pure.enemy.stats.speed),
          d1 \in TurnDraws, d2 \in TurnDraws :
         LET res == RunPass(order, pure.hero, pure.enemy, pure.move_name, emove, d1, d2)
         IN  pure' = [ phase |-> "turn_done", hero |-> pure.hero, enemy |-> pure.enemy,
                       move_name |-> pure.move_name, emove |-> emove,
                       order |-> order,
                       edraw |-> IF order[1] = "enemy" THEN d1 ELSE d2,
                       pout |-> resolve_move(pure.hero, pure.enemy,
                                             pure.move_name,
                                             IF order[1] = "player" THEN d1 ELSE d2).outcome,
                       res |-> res ]
    /\ UNCHANGED <<players, pc, enemies, views, drop_summary, msgs, tasks, last,
                   lastTurn, phaseSum>>

NextTurn == TurnPass

SpecTurn == InitTurn /\ [][NextTurn]_vars

\* ------------------------------------------------ commands whose lookup fails
\* The commands that look up a template or a hero, on one player record: a
\* starter button, /summon, /elixir, and the hero xp of a defeat.  found says
\* whether the catalog (or the roster) holds what the command looks for;
\* pure.failed records that the lookup of the last command failed, pure.before
\* the record as that command found it.
LookupRecord(filled, elixirs, coins, roster, hero, has_base, base_stats) ==
    [ filled |-> filled, elixirs |-> elixirs, coins |-> coins, roster |-> roster,
      hero |-> hero, has_base |-> has_base, base_stats |-> base_stats ]

InitLookup ==
    /\ InitBattle
    /\ \E h \in HeroStarts, filled \in 0 .. 1 :
         LET rec == LookupRecord(filled, MaxElixirs, 0, 1, h, FALSE, ZeroStats)
         IN  pure = [ phase |-> "lookup", rec |-> rec, before |-> rec,
                      op |-> "load", failed |-> FALSE, ops |-> 0 ]

LookupFrame ==
    UNCHANGED <<players, pc, enemies, views, drop_summary, msgs, tasks, last,
                lastTurn, phaseSum>>

LookupDone(rec, op, failed) ==
    pure' = [ phase |-> "lookup", rec |-> rec, before |-> pure.rec,
              op |-> op, failed |-> failed, ops |-> pure.ops + 1 ]

\* add_starter: the template is looked up first
StarterLookup(found) ==
    /\ pure.phase = "lookup" /\ pure.ops < MaxOps
    /\ LookupDone(IF found THEN [pure.rec EXCEPT !.roster = @ + 1] ELSE pure.rec,
                  "starter", ~found)
    /\ LookupFrame

\* /summon: the filled relic is taken from the bag and the record saved, then
\* the hero's template is looked up
SummonLookup(found) ==
    /\ pure.phase = "lookup" /\ pure.ops < MaxOps
    /\ pure.rec.filled > 0
    /\ LookupDone([pure.rec EXCEPT !.filled = @ - 1], "summon", ~found)
    /\ LookupFrame

\* /elixir 1 on a hero given by id or slot
ElixirLookup(found) ==
    /\ pure.phase = "lookup" /\ pure.ops < MaxOps
    /\ pure.rec.elixirs > 0
    /\ IF ~found
         THEN LookupDone(pure.rec, "elixir", TRUE)
         ELSE /\ pure.rec.hero.level < 100
              /\ LET base == IF pure.rec.has_base THEN pure.rec.base_stats
                                                  ELSE pure.rec.hero.stats
                 IN  LookupDone(
                       [pure.rec EXCEPT
                          !.elixirs = @ - 1,
                          !.has_base = TRUE,
                          !.base_stats = base,
                          !.hero = recalc_stats_from_base(
                                     [pure.rec.hero EXCEPT !.level = @ + 1], base)],
                       "elixir", FALSE)
    /\ LookupFrame

\* _handle_rewards up to the hero xp: the coins, then award_entity_xp, whose
\* first level-up asks base_stats_provider for the template's stats.  Without
\* them recalc_stats_from_base raises at base_stats["hp"], after the xp was
\* taken and the level raised.
SettleLookup(coin, gain, found) ==
    /\ pure.phase = "lookup" /\ pure.ops < MaxOps
    /\ pure.rec.hero.level < 100
    /\ LET hero == pure.rec.hero
           paid == [pure.rec EXCEPT !.coins = @ + coin]
           ups == hero.xp + gain >= entity_xp_required(hero.level + 1)
       IN  IF found \/ ~ups
             THEN LookupDone([paid EXCEPT !.hero = award_entity_xp(hero, gain, HeroBase)],
                             "settle", FALSE)
             ELSE LookupDone(
                    [paid EXCEPT
                       !.hero.xp = hero.xp + gain - entity_xp_required(hero.level + 1),
                       !.hero.level = hero.level + 1],
                    "settle", TRUE)
    /\ LookupFrame

NextLookup ==
    \/ \E found \in BOOLEAN : StarterLookup(found)
    \/ \E found \in BOOLEAN : SummonLookup(found)
    \/ \E found \in BOOLEAN : ElixirLookup(found)
    \/ \E gain \in VictoryXp, found \in BOOLEAN : SettleLookup(52, gain, found)

SpecLookup == InitLookup /\ [][NextLookup]_vars

\* ------------------------------------------------------- economy commands
\* /purchase, /sell, /ahsell, /ahbuy, /slots and /cfcreate on the record of
\* player u1, with the seller u2 of a listed auction.  mem is what the process
\* holds (players, auctions, coinflips), disk what the two files hold.  fail
\* names the save_json call of the command that raises (0: none); the
\* exception leaves the handler, so the statements after that call do not run.
ItemPrices == [ Potion |-> 5, Shell |-> 3 ]

AmountArgs == {-1, 0, 1, 2}

PriceArgs == {-3, 0, 4}

DurationArgs == {12, 36}

AuctionArgs == {1, 2, 9}

SpinOutcomes == {"lose", "pair_fruit", "three_fruit", "three_diamond"}

valid_duration(hours) == hours \in {12, 24, 48, 72}

\* int(x / 2) of Python: truncation toward zero
HalfTrunc(x) == IF x >= 0 THEN x \div 2 ELSE -((-x) \div 2)

BagCount(bag, k) == IF k \in DOMAIN bag THEN bag[k] ELSE 0

BagPut(bag, k, n) == [ x \in DOMAIN bag \cup {k} |-> IF x = k THEN n ELSE bag[x] ]

\* bag[k] -= n; if bag[k] <= 0: del bag[k]
BagTake(bag, k, n) ==
    IF bag[k] - n <= 0
      THEN [ x \in DOMAIN bag \ {k} |-> bag[x] ]
      ELSE [ bag EXCEPT ![k] = @ - n ]

PlayersFile(m) == [ coins |-> m.coins, seller |-> m.seller, bag |-> m.bag ]

\* save_json(path, data): the file holds data as it is at the call
SaveJson(d, path, m) ==
    IF path = "players" THEN [ d EXCEPT !.players = PlayersFile(m) ]
                        ELSE [ d EXCEPT !.auctions = m.auctions ]

\* the saves of one handler, in order, up to the one that raises
SaveAll(d, saves, m, fail) ==
    LET n  == IF fail = 0 THEN Len(saves) ELSE fail - 1
        d1 == IF n >= 1 THEN SaveJson(d, saves[1], m) ELSE d
    IN  IF n >= 2 THEN SaveJson(d1, saves[2], m) ELSE d1

NoSlots == [ on |-> FALSE, amount |-> 0, free_spins |-> 0 ]

InitEconomy ==
    /\ InitBattle
    /\ \E c \in {0, 20} :
         LET m == [ coins |-> c, seller |-> 0,
                    bag |-> [ k \in {"Shell"} |-> 2 ],
                    auctions |-> [ a \in {1} |-> [ seller |-> "u2", item |-> "Shell",
                                                   amount |-> 2, price |-> 4,
                                                   hours |-> 12 ] ],
                    coinflips |-> 0, next |-> 2 ]
             d == [ players |-> PlayersFile(m), auctions |-> m.auctions ]
         IN  pure = [ phase |-> "econ", mem |-> m, disk |-> d,
                      before |-> [ mem |-> m, disk |-> d ],
                      op |-> "load", args |-> [ amount |-> 1 ],
                      rejected |-> FALSE, raised |-> FALSE,
                      slot |-> NoSlots, ops |-> 0 ]

EconomyFrame ==
    UNCHANGED <<players, pc, enemies, views, drop_summary, msgs, tasks, last,
                lastTurn, phaseSum>>

EconomyReady == pure.phase = "econ" /\ pure.ops < MaxEconOps

\* a command refused with a message: nothing assigned, nothing saved
Rejected(op, args) ==
    pure' = [ pure EXCEPT !.before = [ mem |-> pure.mem, disk |-> pure.disk ],
                          !.op = op, !.args = args, !.rejected = TRUE,
                          !.raised = FALSE, !.ops = @ + 1 ]

\* a command that assigned m and then called save_json on saves
Committed(op, args, m, saves, fail, slot) ==
    /\ fail <= Len(saves)
    /\ pure' = [ pure EXCEPT !.mem = m,
                             !.disk = SaveAll(pure.disk, saves, m, fail),
                             !.before = [ mem |-> pure.mem, disk |-> pure.disk ],
                             !.op = op, !.args = args, !.rejected = FALSE,
                             !.raised = (fail # 0),
                             !.slot = IF fail # 0 THEN NoSlots ELSE slot,
                             !.ops = @ + 1 ]

Purchase(amount, fail) ==
    /\ EconomyReady
    /\ LET m    == pure.mem
           cost == ItemPrices.Potion * amount
           args == [ amount |-> amount ]
       IN  IF m.coins < cost
             THEN fail = 0 /\ Rejected("purchase", args)
             ELSE Committed("purchase", args,
                    [ m EXCEPT !.coins = @ - cost,
                               !.bag = BagPut(m.bag, "Potion",
                                              BagCount(m.bag, "Potion") + amount) ],
                    <<"players">>, fail, pure.slot)
    /\ EconomyFrame

Sell(item, amount, fail) ==
    /\ EconomyReady
    /\ LET m    == pure.mem
           args == [ amount |-> amount ]
       IN  IF item # "Shell" \/ item \notin DOMAIN m.bag \/ m.bag[item] < amount
             THEN fail = 0 /\ Rejected("sell", args)
             ELSE Committed("sell", args,
                    [ m EXCEPT !.bag = BagTake(m.bag, item, amount),
                               !.coins = @ + ItemPrices.Shell * amount ],
                    <<"players">>, fail, pure.slot)
    /\ EconomyFrame

AhSell(id, amount, price, time, fail) ==
    /\ EconomyReady
    /\ LET m    == pure.mem
           args == [ amount |-> amount, price |-> price, time |-> time ]
       IN  IF ~valid_duration(time) \/ id \notin DOMAIN m.bag \/ m.bag[id] < amount
             THEN fail = 0 /\ Rejected("ahsell", args)
             ELSE Committed("ahsell", args,
                    [ m EXCEPT !.bag = BagTake(m.bag, id, amount),
                               !.auctions =
                                  [ a \in DOMAIN m.auctions \cup {m.next} |->
                                      IF a = m.next
                                        THEN [ seller |-> "u1", item |-> id,
                                               amount |-> amount, price |-> price,
                                               hours |-> time ]
                                        ELSE m.auctions[a] ],
                               !.next = @ + 1 ],
                    <<"auctions", "players">>, fail, pure.slot)
    /\ EconomyFrame

AhBuy(id, amount, fail) ==
    /\ EconomyReady
    /\ LET m    == pure.mem
           args == [ amount |-> amount ]
       IN  IF id \notin DOMAIN m.auctions
             THEN fail = 0 /\ Rejected("ahbuy", args)
             ELSE
               LET auction    == m.auctions[id]
                   total_cost == auction.price * amount
                   paid  == IF auction.seller = "u1" THEN m.coins
                                                     ELSE m.coins - total_cost
                   left  == auction.amount - amount
               IN  IF amount > auction.amount \/ m.coins < total_cost
                     THEN fail = 0 /\ Rejected("ahbuy", args)
                     ELSE Committed("ahbuy", args,
                            [ m EXCEPT
                                !.coins = paid,
                                !.seller = IF auction.seller = "u2"
                                             THEN @ + total_cost ELSE @,
                                !.bag = BagPut(m.bag, auction.item,
                                               BagCount(m.bag, auction.item) + amount),
                                !.auctions =
                                   IF left <= 0
                                     THEN [ a \in DOMAIN m.auctions \ {id} |->
                                              m.auctions[a] ]
                                     ELSE [ m.auctions EXCEPT ![id].amount = left ] ],
                            <<"auctions", "players">>, fail, pure.slot)
    /\ EconomyFrame

\* /slots up to its first await after the bet is taken
Slots(amount, fail) ==
    /\ EconomyReady
    /\ ~pure.slot.on
    /\ LET m    == pure.mem
           args == [ amount |-> amount ]
       IN  IF m.coins < amount
             THEN fail = 0 /\ Rejected("slots", args)
             ELSE Committed("slots", args, [ m EXCEPT !.coins = @ - amount ],
                            <<"players">>, fail,
                            [ on |-> TRUE, amount |-> amount, free_spins |-> 0 ])
    /\ EconomyFrame

SpinPayout(amount, outcome) ==
    CASE outcome = "pair_fruit"    -> HalfTrunc(amount)
      [] outcome = "three_fruit"   -> amount * 4
      [] outcome = "three_diamond" -> amount * 100
      [] OTHER                     -> 0

\* one pass of the spin loop of /slots: the middle row pays, a gift in it
\* adds three free spins
SlotsSpin(outcome, gift, fail) ==
    /\ EconomyReady
    /\ pure.slot.on
    /\ gift => outcome \in {"lose", "pair_fruit"}
    /\ LET m      == pure.mem
           amount == pure.slot.amount
           free   == pure.slot.free_spins + (IF gift THEN 3 ELSE 0)
       IN  Committed("spin", [ amount |-> amount ],
                     [ m EXCEPT !.coins = @ + SpinPayout(amount, outcome) ],
                     <<"players">>, fail,
                     IF free > 0 THEN [ pure.slot EXCEPT !.free_spins = free - 1 ]
                                 ELSE NoSlots)
    /\ EconomyFrame

CfCreate(amount, fail) ==
    /\ EconomyReady
    /\ LET m    == pure.mem
           args == [ amount |-> amount ]
       IN  IF amount <= 0 \/ m.coins < amount
             THEN fail = 0 /\ Rejected("cfcreate", args)
             ELSE Committed("cfcreate", args,
                    [ m EXCEPT !.coins = @ - amount,
                               !.coinflips = IF fail = 0 THEN @ + 1 ELSE @ ],
                    <<"players">>, fail, pure.slot)
    /\ EconomyFrame

NextEconomy ==
    \/ \E amount \in AmountArgs, fail \in 0 .. 1 : Purchase(amount, fail)
    \/ \E item \in {"Shell", "Gem"}, amount \in AmountArgs, fail \in 0 .. 1 :
         Sell(item, amount, fail)
    \/ \E id \in {"Shell", "Gem"}, amount \in AmountArgs, price \in PriceArgs,
          time \in DurationArgs, fail \in 0 .. 2 :
         AhSell(id, amount, price, time, fail)
    \/ \E id \in AuctionArgs, amount \in AmountArgs, fail \in 0 .. 2 :
         AhBuy(id, amount, fail)
    \/ \E amount \in AmountArgs, fail \in 0 .. 1 : Slots(amount, fail)
    \/ \E outcome \in SpinOutcomes, gift \in BOOLEAN, fail \in 0 .. 1 :
         SlotsSpin(outcome, gift, fail)
    \/ \E amount \in AmountArgs, fail \in 0 .. 1 : CfCreate(amount, fail)

SpecEconomy == InitEconomy /\ [][NextEconomy]_vars

\* ------------------------------------------------- save_json on one path
\* Concurrent calls of save_json(path, data) for the same path.  Each statement
\* of the body is a step, so a caller may be suspended anywhere in it; the
\* event loop only suspends a caller at the lock, so its schedules are among
\* these.  data is the version of the dict in memory, a file is absent,
\* partial (opened for writing, not fully dumped) or the full dump of a version;
\* calls counts the calls made and waits those that found the lock taken.
SaveCallers == {"s1", "s2", "s3"}

AbsentFile == [ kind |-> "absent", v |-> 0 ]

PartialFile == [ kind |-> "partial", v |-> 0 ]

FullFile(v) == [ kind |-> "full", v |-> v ]

CanAcquire_NoLock(p) == TRUE

\* asyncio.Lock.acquire returns at once when the lock is free and nobody waits
CanAcquire(p) == p.holder = "none" /\ p.waiters = <<>>

InitSave ==
    /\ InitBattle
    /\ pure = [ phase |-> "save",
                at |-> [ t \in SaveCallers |-> "idle" ],
                holder |-> "none", waiters |-> <<>>,
                data |-> 0, tmp |-> AbsentFile, target |-> FullFile(0),
                calls |-> 0, waits |-> 0 ]

SaveFrame ==
    UNCHANGED <<players, pc, enemies, views, drop_summary, msgs, tasks, last,
                lastTurn, phaseSum>>

\* a handler assigns to the dict
Mutate ==
    /\ pure.phase = "save"
    /\ pure.data < MaxVersion
    /\ pure' = [ pure EXCEPT !.data = @ + 1 ]
    /\ SaveFrame

\* async with save_lock: (entry)
SaveCall(t) ==
    /\ pure.phase = "save"
    /\ pure.at[t] = "idle"
    /\ pure.calls < MaxSaves
    /\ IF CanAcquire(pure)
         THEN pure' = [ pure EXCEPT !.at[t] = "locked", !.holder = t,
                                    !.calls = @ + 1 ]
         ELSE pure' = [ pure EXCEPT !.at[t] = "wait",
                                    !.waiters = Append(@, t),
                                    !.calls = @ + 1, !.waits = @ + 1 ]
    /\ SaveFrame

\* the first waiter is woken by the release and takes the lock
SaveWake(t) ==
    /\ pure.phase = "save"
    /\ pure.at[t] = "wait"
    /\ pure.holder = "none"
    /\ pure.waiters # <<>> /\ Head(pure.waiters) = t
    /\ pure' = [ pure EXCEPT !.at[t] = "locked", !.holder = t,
                             !.waiters = Tail(@) ]
    /\ SaveFrame

\* open(tmp, "w")
SaveOpen(t) ==
    /\ pure.phase = "save"
    /\ pure.at[t] = "locked"
    /\ pure' = [ pure EXCEPT !.at[t] = "open", !.tmp = PartialFile ]
    /\ SaveFrame

\* json.dump(data, f, indent=2) and the close of f; raising, it leaves the
\* with blocks and the lock is released
SaveDump(t, raises) ==
    /\ pure.phase = "save"
    /\ pure.at[t] = "open"
    /\ IF raises
         THEN pure' = [ pure EXCEPT !.at[t] = "idle",
                                    !.holder = IF @ = t THEN "none" ELSE @ ]
         ELSE pure' = [ pure EXCEPT !.at[t] = "dumped", !.tmp = FullFile(pure.data) ]
    /\ SaveFrame

\* os.replace(tmp, path), which raises when tmp is not there
SaveReplace(t) ==
    /\ pure.phase = "save"
    /\ pure.at[t] = "dumped"
    /\ pure' = [ pure EXCEPT
                   !.at[t] = "replaced",
                   !.target = IF pure.tmp.kind = "absent" THEN @ ELSE pure.tmp,
                   !.tmp = AbsentFile ]
    /\ SaveFrame

\* async with save_lock: (exit)
SaveRelease(t) ==
    /\ pure.phase = "save"
    /\ pure.at[t] = "replaced"
    /\ pure' = [ pure EXCEPT !.at[t] = "idle",
                             !.holder = IF @ = t THEN "none" ELSE @ ]
    /\ SaveFrame

NextSave ==
    \/ Mutate
    \/ \E t \in SaveCallers : SaveCall(t)
    \/ \E t \in SaveCallers : SaveWake(t)
    \/ \E t \in SaveCallers : SaveOpen(t)
    \/ \E t \in SaveCallers, raises \in BOOLEAN : SaveDump(t, raises)
    \/ \E t \in SaveCallers : SaveReplace(t)
    \/ \E t \in SaveCallers : SaveRelease(t)

SpecSave == InitSave /\ [][NextSave]_vars

\* ------------------------------------------- stale auctions and coinflips
\* One auction of seller u2 and one coinflip of creator u1 while the bot runs:
\* the clock, on_ready, and the commands that end a listing or a wager.
\* auction_cleanup and coinflip_cleanup are tasks.loop objects; a loop runs
\* only after its start() is called, and the file calls start() nowhere
\* (on_ready only syncs the command tree), so the two bodies below are never
\* steps of the program.
EXPIRY_SECONDS == 1800

ClockSteps == {1800, 43200}

\* body of auction_cleanup at time now
auction_cleanup(m, now) ==
    IF m.auction.on /\ now >= m.auction.end_time
      THEN [ m EXCEPT !.auction.on = FALSE,
                      !.bag = IF m.auction.amount > 0 THEN @ + m.auction.amount
                                                      ELSE @ ]
      ELSE m

\* body of coinflip_cleanup at time now
coinflip_cleanup(m, now) ==
    IF m.flip.on /\ now - m.flip.time > EXPIRY_SECONDS
      THEN [ m EXCEPT !.flip.on = FALSE, !.coins.u1 = @ + m.flip.amount ]
      ELSE m

InitSweep ==
    /\ InitBattle
    /\ \E hours \in {12, 24} :
         pure = [ phase |-> "sweep", now |-> 0, ready |-> FALSE,
                  auction |-> [ on |-> TRUE, end_time |-> hours * 3600,
                                amount |-> 2, price |-> 4 ],
                  flip |-> [ on |-> TRUE, time |-> 0, amount |-> 10 ],
                  bag |-> 0,
                  coins |-> [ u1 |-> 10, u2 |-> 10 ],
                  op |-> "load", ops |-> 0 ]

SweepFrame ==
    UNCHANGED <<players, pc, enemies, views, drop_summary, msgs, tasks, last,
                lastTurn, phaseSum>>

\* time passes
ClockTick(d) ==
    /\ pure.phase = "sweep"
    /\ pure.now + d <= MaxClock
    /\ pure' = [ pure EXCEPT !.now = @ + d, !.op = "tick" ]
    /\ SweepFrame

\* on_ready: bot.tree.sync(), nothing else
OnReady ==
    /\ pure.phase = "sweep"
    /\ ~pure.ready
    /\ pure' = [ pure EXCEPT !.ready = TRUE, !.op = "ready" ]
    /\ SweepFrame

SweepCommand == pure.phase = "sweep" /\ pure.ready /\ pure.ops < MaxSweepOps

\* /ahbuy by u1 (no test of end_time)
SweepAhBuy(amount) ==
    /\ SweepCommand
    /\ pure.auction.on
    /\ LET total_cost == pure.auction.price * amount
           left       == pure.auction.amount - amount
       IN  /\ amount <= pure.auction.amount
           /\ pure.coins.u1 >= total_cost
           /\ pure' = [ pure EXCEPT !.coins.u1 = @ - total_cost,
                                    !.coins.u2 = @ + total_cost,
                                    !.auction.amount = left,
                                    !.auction.on = (left > 0),
                                    !.op = "ahbuy", !.ops = @ + 1 ]
    /\ SweepFrame

\* /ahcancel by the seller u2
SweepAhCancel ==
    /\ SweepCommand
    /\ pure.auction.on
    /\ pure' = [ pure EXCEPT !.bag = @ + pure.auction.amount,
                             !.auction.on = FALSE,
                             !.op = "ahcancel", !.ops = @ + 1 ]
    /\ SweepFrame

\* /cftake by u2 (no test of the wager's age)
SweepCfTake(winner) ==
    /\ SweepCommand
    /\ pure.flip.on
    /\ pure.coins.u2 >= pure.flip.amount
    /\ pure' = [ pure EXCEPT
                   !.coins = [ u \in {"u1", "u2"} |->
                                 (IF u = "u2" THEN @[u] - pure.flip.amount ELSE @[u])
                                 + (IF u = winner THEN pure.flip.amount * 2 ELSE 0) ],
                   !.flip.on = FALSE,
                   !.op = "cftake", !.ops = @ + 1 ]
    /\ SweepFrame

NextSweep ==
    \/ \E d \in ClockSteps : ClockTick(d)
    \/ OnReady
    \/ \E amount \in {1, 2} : SweepAhBuy(amount)
    \/ SweepAhCancel
    \/ \E winner \in {"u1", "u2"} : SweepCfTake(winner)

SpecSweep == InitSweep /\ [][NextSweep]_vars

\* the event loop keeps running: whatever can happen next eventually does
SpecSweepLive == SpecSweep /\ WF_vars(NextSweep)

\* ------------------------------------------------ materialized movesets
\* An entity materialized from a catalog template and its first use in a
\* battle.  A catalog skill carries "lv.", the level that unlocks it.  The
\* wild encounter, the chest hero, the boss queue member and the summoned
\* hero are made by build_instance_from_template, the starter by add_starter
\* at level 10.
SkillCatalogs ==
    { <<>>,
      << [skill |-> "Slash", type |-> "Physical", power |-> "50", acc |-> "90", lv |-> 1],
         [skill |-> "Cleave", type |-> "Physical", power |-> "90", acc |-> "90", lv |-> 20] >>,
      << [skill |-> "Guard", type |-> "Status", power |-> "-", acc |-> "100", lv |-> 1],
         [skill |-> "Slash", type |-> "Physical", power |-> "50", acc |-> "90", lv |-> 1] >>,
      << [skill |-> "Slash", type |-> "Physical", power |-> "50", acc |-> "90", lv |-> 1],
         [skill |-> "Jab", type |-> "Physical", power |-> "10", acc |-> "100", lv |-> 1],
         [skill |-> "Spark", type |-> "Magical", power |-> "30", acc |-> "100", lv |-> 3],
         [skill |-> "Bash", type |-> "Physical", power |-> "30", acc |-> "90", lv |-> 5],
         [skill |-> "Nova", type |-> "Magical", power |-> "100", acc |-> "90", lv |-> 40] >>,
      << [skill |-> "Nova", type |-> "Magical", power |-> "100", acc |-> "90", lv |-> 40] >> }

BuildKinds == {"encounter", "chest", "boss", "summon", "starter"}

BuildLevels == {5, 30}

StarterLevel == 10

DefaultStrike ==
    [move |-> "Strike", type |-> "Physical", power |-> 40, numeric |-> TRUE, acc |-> 100]

\* add_starter: the skills with "lv." <= level, the first four of them, or
\* the default Strike when there is none
StarterMoveset(skills, level) ==
    LET unlocked == SelectSeq(skills, LAMBDA sk : sk.lv <= level)
        first    == [i \in 1..Min2(4, Len(unlocked)) |-> BuildMove(unlocked[i])]
    IN  IF first = <<>> THEN << DefaultStrike >> ELSE first

Materialized(kind, skills, level) ==
    IF kind = "starter"
      THEN [ build_instance_from_template(HeroBase, skills, "uncommon", "earth", 0,
                                          StarterLevel)
               EXCEPT !.moveset = StarterMoveset(skills, StarterLevel) ]
      ELSE build_instance_from_template(
             IF kind = "encounter" THEN MonsterBase ELSE HeroBase,
             skills, "uncommon", "earth", 0, level)

\* the opponent of the materialized entity: the fallback hero at level 10
BuildOpponent ==
    build_instance_from_template(HeroBase, HeroSkills, "uncommon", "earth", 0, 10)

NoPass == [php |-> 0, ehp |-> 0, acts |-> <<>>, ended |-> "none"]

InitBuild ==
    /\ InitBattle
    /\ \E kind \in BuildKinds, skills \in SkillCatalogs, level \in BuildLevels :
         /\ kind = "starter" => level = 5
         /\ pure = [ phase |-> "build", stage |-> "template", kind |-> kind,
                     skills |-> skills,
                     level |-> IF kind = "starter" THEN StarterLevel ELSE level,
                     entity |-> BuildOpponent, move |-> "", draw |-> 0,
                     hp_before |-> 0, hp_after |-> 0, outcome |-> "",
                     raised |-> FALSE, res |-> NoPass ]

BuildFrame ==
    UNCHANGED <<players, pc, enemies, views, drop_summary, msgs, tasks, last,
                lastTurn, phaseSum>>

Materialize ==
    /\ pure.phase = "build" /\ pure.stage = "template"
    /\ pure' = [ pure EXCEPT !.stage = "built",
                             !.entity = Materialized(pure.kind, pure.skills, pure.level) ]
    /\ BuildFrame

\* one resolve_move call with the entity as attacker and one of its moves
UseBuiltMove(i, draw) ==
    /\ pure.phase = "build" /\ pure.stage = "built"
    /\ i \in 1..Len(pure.entity.moveset)
    /\ LET r == resolve_move(pure.entity, BuildOpponent, pure.entity.moveset[i].move, draw)
       IN  pure' = [ pure EXCEPT !.stage = "used",
                                 !.move = pure.entity.moveset[i].move,
                                 !.draw = draw,
                                 !.hp_before = BuildOpponent.current_hp,
                                 !.hp_after = r.hp,
                                 !.outcome = r.outcome ]
    /\ BuildFrame

\* process_turn with the entity as the enemy: random.choice of its moveset,
\* which raises IndexError on an empty list, before the order is chosen
TurnAgainstBuilt(pmove, k, order, d1, d2) ==
    /\ pure.phase = "build" /\ pure.stage = "built"
    /\ pure.kind \in {"encounter", "boss"}
    /\ pmove \in MoveNames(BuildOpponent)
    /\ order \in TurnOrders(BuildOpponent.stats.speed, pure.entity.stats.speed)
    /\ IF pure.entity.moveset = <<>>
         THEN /\ k = 1 /\ d1 = 1 /\ d2 = 1
              /\ order = CHOOSE o \in TurnOrders(BuildOpponent.stats.speed,
                                                 pure.entity.stats.speed) : TRUE
              /\ pure' = [ pure EXCEPT !.stage = "turn", !.raised = TRUE ]
         ELSE /\ k \in 1..Len(pure.entity.moveset)
              /\ pure' = [ pure EXCEPT
                             !.stage = "turn",
                             !.move = pure.entity.moveset[k].move,
                             !.res = RunPass(order, BuildOpponent, pure.entity, pmove,
                                             pure.entity.moveset[k].move, d1, d2) ]
    /\ BuildFrame

NextBuild ==
    \/ Materialize
    \/ \E i \in 1..4, draw \in TurnDraws : UseBuiltMove(i, draw)
    \/ \E pmove \in AllMoveNames, k \in 1..4,
          order \in {<<"player", "enemy">>, <<"enemy", "player">>},
          d1 \in TurnDraws, d2 \in TurnDraws :
         TurnAgainstBuilt(pmove, k, order, d1, d2)

SpecBuild == InitBuild /\ [][NextBuild]_vars

\* ------------------------------------------------------- recruit prompts
\* /explore (hero and monster encounters), /summon and the RecruitView of
\* player u1.  encounter is p["encounter"], prompts the RecruitView messages
\* with their target, replies the message edits of handlers that have not
\* completed (a prompt keeps its buttons until the edit is done), pc the
\* entities recruited, each with the uid of the instance it was copied from.
NoEncounter == [uid |-> 0, name |-> "", rarity |-> "", level |-> 0, shiny |-> FALSE]

\* what pick_random_hero_template returns: template, rolled level and shiny
HeroPicks ==
    { [name |-> "Aiden", rarity |-> "common", level |-> 10, shiny |-> FALSE],
      [name |-> "Lyra", rarity |-> "legendary", level |-> 55, shiny |-> TRUE] }

MonsterPicks ==
    { [name |-> "Slime", rarity |-> "common", level |-> 5, shiny |-> sh] :
        sh \in BOOLEAN }

\* build_instance_from_template(template, level, is_hero) with the draw of
\* random.random() < 1/5000 as a parameter: level or template["level"], shiny
\* only for is_hero
Instance(template, level, is_hero, draw, uid) ==
    [ uid |-> uid, name |-> template.name, rarity |-> template.rarity,
      level |-> IF level # 0 THEN level ELSE template.level,
      shiny |-> is_hero /\ draw ]

InitRecruit ==
    /\ InitBattle
    /\ pure = [ phase |-> "recruit", encounter |-> NoEncounter, pc |-> <<>>,
                contracts |-> StartContracts, prompts |-> <<>>, replies |-> {},
                next |-> 1,
                last |-> [op |-> "load", pick |-> NoEncounter, inst |-> NoEncounter,
                          prompt |-> 0, success |-> FALSE],
                ops |-> 0 ]

RecruitFrame ==
    UNCHANGED <<players, pc, enemies, views, drop_summary, msgs, tasks, last,
                lastTurn, phaseSum>>

RecruitReady == pure.phase = "recruit" /\ pure.ops < MaxRecruitOps

\* /explore, hero encounter: the instance is stored and shown in a RecruitView
ExploreHero(pick, draw) ==
    /\ RecruitReady
    /\ LET inst == Instance(pick, 0, FALSE, draw, pure.next)
       IN  pure' = [ pure EXCEPT
                       !.encounter = inst,
                       !.prompts = Append(@, [target |-> inst, recruited |-> 0,
                                              open |-> TRUE]),
                       !.next = @ + 1,
                       !.last = [op |-> "hero", pick |-> pick @@ [uid |-> pure.next],
                                 inst |-> inst, prompt |-> Len(pure.prompts) + 1,
                                 success |-> FALSE],
                       !.ops = @ + 1 ]
    /\ RecruitFrame

\* /explore, monster encounter: shiny forced to False, then start_battle,
\* which stores the enemy as p["encounter"]
ExploreWild(pick, draw) ==
    /\ RecruitReady
    /\ LET inst == [ Instance(pick, 0, FALSE, draw, pure.next) EXCEPT !.shiny = FALSE ]
       IN  pure' = [ pure EXCEPT
                       !.encounter = inst,
                       !.next = @ + 1,
                       !.last = [op |-> "monster", pick |-> pick @@ [uid |-> pure.next],
                                 inst |-> inst, prompt |-> 0, success |-> FALSE],
                       !.ops = @ + 1 ]
    /\ RecruitFrame

\* /summon after the template was found: a shiny legendary in a RecruitView;
\* p["encounter"] is not written
SummonPrompt(draw) ==
    /\ RecruitReady
    /\ LET built == Instance([name |-> "Aurelia", rarity |-> "epic", level |-> 10],
                             0, FALSE, draw, pure.next)
           inst  == [ built EXCEPT !.level = 60, !.rarity = "legendary", !.shiny = TRUE ]
       IN  pure' = [ pure EXCEPT
                       !.prompts = Append(@, [target |-> inst, recruited |-> 0,
                                              open |-> TRUE]),
                       !.next = @ + 1,
                       !.last = [op |-> "summon", pick |-> NoEncounter, inst |-> inst,
                                 prompt |-> Len(pure.prompts) + 1, success |-> FALSE],
                       !.ops = @ + 1 ]
    /\ RecruitFrame

\* RecruitView.attempt_recruit up to the edit it awaits
attempt_recruit(i, success, fight) ==
    /\ RecruitReady
    /\ i \in 1..Len(pure.prompts)
    /\ pure.prompts[i].open
    /\ Cardinality(pure.replies) < MaxInFlight
    /\ pure.contracts > 0
    /\ success => ~fight
    /\ LET target    == pure.prompts[i].target
           encounter == IF pure.encounter # NoEncounter THEN pure.encounter ELSE target
       IN  pure' = [ pure EXCEPT
                       !.contracts = @ - 1,
                       !.pc = IF success THEN Append(@, encounter) ELSE @,
                       !.encounter = IF success THEN NoEncounter
                                     ELSE IF fight THEN encounter ELSE @,
                       !.prompts[i].recruited = IF success THEN @ + 1 ELSE @,
                       !.replies = @ \cup {[prompt |-> i, keep |-> ~success /\ ~fight,
                                            n |-> pure.ops]},
                       !.last = [op |-> "recruit", pick |-> target, inst |-> encounter,
                                 prompt |-> i, success |-> success],
                       !.ops = @ + 1 ]
    /\ RecruitFrame

\* the edit completes: view=None after a success or a fight, view=self after
\* a failure that allows another attempt
RecruitReplyDone(t) ==
    /\ pure.phase = "recruit"
    /\ t \in pure.replies
    /\ pure' = [ pure EXCEPT !.replies = @ \ {t},
                             !.prompts[t.prompt].open = t.keep,
                             !.last.op = "reply" ]
    /\ RecruitFrame

NextRecruit ==
    \/ \E pick \in HeroPicks, draw \in BOOLEAN : ExploreHero(pick, draw)
    \/ \E pick \in MonsterPicks, draw \in BOOLEAN : ExploreWild(pick, draw)
    \/ \E draw \in BOOLEAN : SummonPrompt(draw)
    \/ \E i \in 1..MaxRecruitOps, success \in BOOLEAN, fight \in BOOLEAN :
         attempt_recruit(i, success, fight)
    \/ \E t \in pure.replies : RecruitReplyDone(t)

SpecRecruit == InitRecruit /\ [][NextRecruit]_vars

\* ------------------------------------------------------------- properties

\* C1: an interaction on a session's message by a user other than the player
\* who started the session is rejected and changes nothing: not the session's
\* heroes or enemy, not its views or message, not the player records.
C1_OwnerOnly ==
    [][ (last'.res \in {"ok", "rejected"} /\ last'.foreign)
          => /\ last'.res = "rejected"
             /\ UNCHANGED <<players, pc, enemies, views, drop_summary, msgs, tasks>>
      ]_vars

\* C2: no player has two live sessions at once: of the battle messages a
\* player started, at most one still carries components.
C2_OneLiveSession ==
    \A u \in Users :
      Cardinality({m \in 1..Len(msgs) :
                     msgs[m].owner = u /\ msgs[m].comp.kind # "none"}) <= 1

\* C3: while a move handler of a session is suspended before the message edit
\* that ends it, no other handler of that session runs: no interaction is
\* handled during such a suspension, and no two handlers of one message are
\* suspended together when one of them is a move.
C3_NoOverlap ==
    /\ ~last.overlap
    /\ \A t1 \in tasks, t2 \in tasks :
         (t1.msg = t2.msg /\ t1.op = "move") => t1 = t2

\* C4: after the defeat of a boss enemy that is not the last of the team, the
\* session is active again against the next enemy (its message carries the
\* battle buttons), and a session reports at most one victory.
C4_BossPhases ==
    \A m \in 1..Len(msgs) :
      /\ msgs[m].shown = "bossnext" => msgs[m].comp.kind = "battle"
      /\ msgs[m].victories <= 1

\* C5: the summary shown when a boss team is cleared totals the rewards
\* rolled at the defeat of every phase of that boss run.
C5_SummaryIsPhaseSum ==
    \A m \in 1..Len(msgs) :
      (msgs[m].shown = "victory" /\ msgs[m].summary.cleared)
        => /\ msgs[m].summary.coins = msgs[m].ledger.coins
           /\ msgs[m].summary.txp = msgs[m].ledger.txp
           /\ msgs[m].summary.hxp = msgs[m].ledger.hxp
           /\ msgs[m].summary.drops = msgs[m].ledger.drops

\* C6: within one turn pass every move that is resolved starts with both
\* sides above 0 hp, so nothing moves once a side has reached 0 hp.
C6_NoMoveAtZeroHp ==
    \A i \in 1..Len(lastTurn.acts) :
      lastTurn.acts[i].php > 0 /\ lastTurn.acts[i].ehp > 0

\* C6 witness: the first mover brought the other side to 0 hp and the second
\* mover did not act.
C6_Witness ==
    /\ lastTurn.msg # 0
    /\ Len(lastTurn.acts) = 1
    /\ lastTurn.ended = "enemy_down"
    /\ lastTurn.acts[1].side = "player"
    /\ lastTurn.order = <<"player", "enemy">>

\* C7: the side with the higher speed moves first; on equal speed either
\* order can be drawn; the moves resolved follow the order drawn.
C7_SpeedOrder ==
    lastTurn.msg # 0 =>
      /\ lastTurn.pspeed > lastTurn.espeed => lastTurn.order = <<"player", "enemy">>
      /\ lastTurn.espeed > lastTurn.pspeed => lastTurn.order = <<"enemy", "player">>
      /\ lastTurn.pspeed = lastTurn.espeed =>
           lastTurn.choices = {<<"player", "enemy">>, <<"enemy", "player">>}
      /\ lastTurn.order \in lastTurn.choices
      /\ \A i \in 1..Len(lastTurn.acts) : lastTurn.acts[i].side = lastTurn.order[i]

\* C7 witness: the faster player moved first and the enemy second.
C7_Witness ==
    /\ lastTurn.msg # 0
    /\ lastTurn.pspeed > lastTurn.espeed
    /\ Len(lastTurn.acts) = 2
    /\ lastTurn.acts[1].side = "player"

\* on equal speed the enemy was drawn to move first
C7_TieEnemyFirst ==
    /\ lastTurn.msg # 0
    /\ lastTurn.pspeed = lastTurn.espeed
    /\ Len(lastTurn.acts) = 2
    /\ lastTurn.acts[1].side = "enemy"

\* on equal speed the player was drawn to move first
C7_TiePlayerFirst ==
    /\ lastTurn.msg # 0
    /\ lastTurn.pspeed = lastTurn.espeed
    /\ Len(lastTurn.acts) = 2
    /\ lastTurn.acts[1].side = "player"

\* the faster enemy moved first
C7_EnemyFaster ==
    /\ lastTurn.msg # 0
    /\ lastTurn.espeed > lastTurn.pspeed
    /\ Len(lastTurn.acts) = 2
    /\ lastTurn.acts[1].side = "enemy"

\* C8: a move of accuracy 100 never misses and a move of accuracy 0 always
\* misses, leaving the defender's hp unchanged, whatever the draw in 1..100.
C8_AccuracyEnds ==
    (pure.phase = "done" /\ pure.name = "Slash") =>
      /\ pure.acc = 100 => pure.outcome # "missed"
      /\ pure.acc = 0 => (pure.outcome = "missed" /\ pure.hp_after = pure.hp)

\* C9: a move that hits deals max(1, power + stat div 2 - defense div 3),
\* stat being magic for a Magical move and attack otherwise; the damage is at
\* least 1; the defender's hp becomes max(0, hp - damage); attack 70, power
\* 50 against defense 40 deals 72.
C9_DamageFormula ==
    (pure.phase = "done" /\ pure.outcome = "hit") =>
      LET stat == IF pure.type = "Magical" THEN pure.magic ELSE pure.attack
          raw == pure.power + stat \div 2 - pure.defense \div 3
      IN  /\ pure.dmg = (IF raw < 1 THEN 1 ELSE raw)
          /\ pure.dmg >= 1
          /\ pure.hp_after = (IF pure.hp - pure.dmg < 0 THEN 0 ELSE pure.hp - pure.dmg)
          /\ (pure.type = "Physical" /\ pure.attack = 70 /\ pure.power = 50
                /\ pure.defense = 40) => pure.dmg = 72

\* C9 witness: the physical hit of the example, 50 + 35 - 13 = 72.
C9_Witness ==
    /\ pure.phase = "done"
    /\ pure.outcome = "hit"
    /\ pure.type = "Physical"
    /\ pure.attack = 70 /\ pure.power = 50 /\ pure.defense = 40
    /\ pure.dmg = 72
    /\ pure.hp = 80 /\ pure.hp_after = 8

\* a hit whose expression is below 1 deals 1
C9_FloorReached ==
    /\ pure.phase = "done"
    /\ pure.outcome = "hit"
    /\ pure.power + pure.attack \div 2 - pure.defense \div 3 < 1
    /\ pure.dmg = 1

\* C10: Retreat is offered in every state that waits for the player, the
\* battle buttons and the forced swap menu alike, and a session that was
\* retreated from carries no components.
C10_RetreatAvailable ==
    \A m \in 1..Len(msgs) :
      /\ msgs[m].comp.kind \in {"battle", "auto"}
           => "Retreat" \in Components(msgs[m].comp)
      /\ msgs[m].shown = "retreat" => msgs[m].comp = NoComp

\* C11: a swap, forced or voluntary, only replaces the session's active
\* entity: the step that handles the pick resolves no move, leaves the hp of
\* the enemy and of every hero, the player records and the drop ledger as
\* they were, and the view it attaches carries the same totals.
C11_SwapIsFree ==
    [][ (\E t \in tasks' \ tasks : t.op = "select")
          => /\ UNCHANGED <<players, pc, enemies, drop_summary, phaseSum>>
             /\ lastTurn' = NoTurn
             /\ Len(views') = Len(views) + 1
             /\ \A t \in tasks' \ tasks :
                  LET old == views[msgs[t.msg].comp.view]
                      new == views'[t.comp.view]
                  IN  /\ carry_state(new) = carry_state(old)
                      /\ new.enemy = old.enemy
                      /\ carry_state(views'[msgs[t.msg].comp.view]) = carry_state(old)
      ]_vars

\* C11 witness: the pick in the forced swap menu has been handled and the
\* fresh hero faces the same enemy.
C11_Witness ==
    \E t \in tasks :
      /\ t.op = "select"
      /\ msgs[t.msg].shown = "autoswap"
      /\ views[t.comp.view].player_hero = "h2"
      /\ pc["h1"].current_hp = 0
      /\ pc["h2"].current_hp > 0

\* the pick in the voluntary swap menu has been handled
C11_VoluntaryPick ==
    \E t \in tasks :
      /\ t.op = "select"
      /\ msgs[t.msg].shown = "swapmenu"
      /\ pc["h1"].current_hp > 0

\* C12: when the active hero of a session falls while the enemy stands, the
\* session offers the forced swap exactly when another member of the active
\* team of the player who started it has hp > 0, and otherwise ends in
\* defeat; it never ends in defeat while such a member exists.
C12_FaintOutcome ==
    [][ \A t \in tasks' \ tasks :
          (t.op = "move" /\ lastTurn'.ended = "player_down") =>
            LET active == views[msgs[t.msg].comp.view].player_hero
                others == {h \in TeamHeroes(msgs[t.msg].owner) \ {active} :
                             pc'[h].current_hp > 0}
            IN  /\ t.shown \in {"autoswap", "defeat"}
                /\ t.shown = "autoswap" <=> others # {}
                /\ t.shown = "autoswap" => t.comp.opts = others
      ]_vars

\* C13: whenever a session becomes active and waits for a move, at its
\* start and after every pick in a swap menu, the hero it fields belongs to
\* the active team of the player who started it and has hp > 0.
C13_ActiveHeroFit ==
    [][ /\ Len(msgs') = Len(msgs) + 1 =>
             LET hero == views'[msgs'[Len(msgs')].comp.view].player_hero
             IN  /\ hero \in TeamHeroes(msgs'[Len(msgs')].owner)
                 /\ pc'[hero].current_hp > 0
        /\ \A t \in tasks' \ tasks :
             t.op = "select" =>
               LET hero == views'[t.comp.view].player_hero
               IN  /\ hero \in TeamHeroes(msgs[t.msg].owner)
                   /\ pc'[hero].current_hp > 0
      ]_vars

\* C14: award_entity_xp never leaves the level above 100, and an entity
\* that is at level 100 when the call returns, capped before or capped by
\* this call, holds 0 xp.
C14_CapHoldsZeroXp ==
    pure.phase = "xp_done" =>
      /\ pure.after.level <= 100
      /\ pure.after.level = 100 => pure.after.xp = 0

\* the thresholds of the levels from..to added up
RECURSIVE SumThresholds(_, _)
SumThresholds(from, to) ==
    IF from > to THEN 0
    ELSE entity_xp_required(from) + SumThresholds(from + 1, to)

\* C15: on an entity below level 100 award_entity_xp adds the gain and levels
\* up as often as the xp allows within the call: on return the level is 100
\* or the xp is below the next threshold, the xp is not negative, one
\* level-up line is logged per level gained, and the old xp plus the gain
\* equals the new xp plus the thresholds consumed.
C15_LevelUpCascade ==
    (pure.phase = "xp_done" /\ pure.before.level < 100) =>
      /\ pure.after.level >= pure.before.level
      /\ \/ pure.after.level = 100
         \/ pure.after.xp < entity_xp_required(pure.after.level + 1)
      /\ pure.after.xp >= 0
      /\ pure.logged = pure.after.level - pure.before.level
      /\ pure.before.xp + pure.gain =
           pure.after.xp + SumThresholds(pure.before.level + 1, pure.after.level)

\* C15 witness: one call took a level 1 hero through 91 level-ups.
C15_Witness ==
    /\ pure.phase = "xp_done"
    /\ pure.before.level = 1
    /\ pure.gain = 3000000
    /\ pure.after.level = 92
    /\ pure.logged = 91

\* C16: for IVs in 0..31, EVs >= 0 and levels in 1..100, calc_hp and
\* calc_stat are non-decreasing in IV, in EV and in level: raising one of
\* them with the others fixed never lowers either result.
C16_StatsMonotone ==
    [][ (pure.phase = "stat" /\ pure'.phase = "stat")
          => /\ pure'.hp >= pure.hp
             /\ pure'.stat >= pure.stat ]_vars

\* C16 witness: IV, EV and level raised to their tops for base 80.
C16_Witness ==
    /\ pure.phase = "stat"
    /\ pure.base = 80 /\ pure.iv = 31 /\ pure.ev = 12 /\ pure.level = 100
    /\ pure.hp = 304
    /\ pure.stat = 199

\* C17: after any sequence of hits, heals, xp level-ups, elixirs, summons
\* and recruitments the hero has 0 <= current hp <= max hp and
\* 1 <= level <= 100, and an operation that changed its level left its
\* current hp between 1 and the new max hp.
C17_HpAndLevelBounds ==
    pure.phase = "hero" =>
      /\ 0 <= pure.hero.current_hp
      /\ pure.hero.current_hp <= pure.hero.stats.hp
      /\ 1 <= pure.hero.level
      /\ pure.hero.level <= 100
      /\ (pure.op \in {"elixir", "xp"} /\ pure.hero.level # pure.was.level)
           => pure.hero.current_hp >= 1

\* C17 witness: a hero at 0 hp was raised one level by an elixir and stands
\* at 1 hp.
C17_Witness ==
    /\ pure.phase = "hero"
    /\ pure.op = "elixir"
    /\ pure.was.current_hp = 0
    /\ pure.hero.level = pure.was.level + 1
    /\ pure.hero.current_hp = 1

\* a hero reached level 100 by elixir with elixirs to spare
C17_CapByElixir ==
    /\ pure.phase = "hero"
    /\ pure.op = "elixir"
    /\ pure.was.level = 99
    /\ pure.hero.level = 100
    /\ pure.elixirs = MaxElixirs - 1

\* C18: after an operation that sets or changes a hero's level (a level-up by
\* xp, an elixir, the level given to a summoned hero) every stat equals
\* calc_hp / calc_stat of the template's base stat, the hero's IV and EV and
\* the new level, so that elixirs and xp lead to the same stats.
C18_StatsFollowLevel ==
    (/\ pure.phase = "hero"
     /\ \/ pure.op = "summon"
        \/ pure.op \in {"elixir", "xp"} /\ pure.hero.level # pure.was.level)
      => pure.hero.stats = ScaledStats(HeroBase, pure.hero.iv, pure.hero.level)

\* a level-up by xp recomputed the stats from the template
C18_XpLevelUp ==
    /\ pure.phase = "hero"
    /\ pure.op = "xp"
    /\ pure.hero.level > pure.was.level
    /\ pure.hero.stats = ScaledStats(HeroBase, pure.hero.iv, pure.hero.level)
    /\ pure.hero.stats # pure.was.stats

\* C19: after any sequence of starter selection, recruitment, partyadd /
\* teamadd, partyremove / teamremove, move and barracks clear, the active team
\* has at most 6 entries, no id twice, and only ids of heroes in the roster.
C19_TeamWellFormed ==
    pure.phase = "team" =>
      /\ Len(pure.team) <= 6
      /\ \A i, j \in 1 .. Len(pure.team) : i # j => pure.team[i] # pure.team[j]
      /\ SeqRange(pure.team) \subseteq pure.roster

\* C20: a hero whose locked flag is set is not removed from the roster or from
\* the active team by any operation, and keeps its slot while the team keeps
\* its length (barracks clear, partyremove / teamremove, move).
C20_LockedStay ==
    [][ (pure.phase = "team" /\ pure'.phase = "team") =>
          \A h \in pure.locked :
            /\ h \in pure'.roster
            /\ \A i \in 1 .. Len(pure.team) :
                 pure.team[i] = h =>
                   /\ h \in SeqRange(pure'.team)
                   /\ Len(pure'.team) = Len(pure.team) => pure'.team[i] = h
      ]_vars

\* a locked member of the active team was refused by partyremove and by move:
\* the team still holds it in slot 1 after the roster was cleared around it
C20_LockedMemberKept ==
    /\ pure.phase = "team"
    /\ pure.team # <<>>
    /\ pure.team[1] \in pure.locked
    /\ pure.roster = SeqRange(pure.team)
    /\ pure.next > Len(pure.team) + 1

\* coins granted by the account level-ups from level a to level b
RECURSIVE LevelCoins(_, _)
LevelCoins(a, b) ==
    IF a >= b THEN 0 ELSE (a + 1) * 200 + LevelCoins(a + 1, b)

\* account xp consumed by the level-ups from level a to level b
RECURSIVE AccountXpSpent(_, _)
AccountXpSpent(a, b) ==
    IF a >= b THEN 0 ELSE xp_required_for_level(a) + AccountXpSpent(a + 1, b)

CatalogItems ==
    UNION { { MaterialPool(ElementTables[e], RarityOrder[r])[k] :
                k \in 1 .. Len(MaterialPool(ElementTables[e], RarityOrder[r])) } :
            e \in 1 .. Len(ElementTables), r \in 1 .. 5 }

\* C23: with a material in the catalog, a finished drop loop has added
\* between 1 and 3 units to the bag, one per pass, each of them a material of
\* the enemy's element table (of some table when the enemy's element has none)
\* and of the rolled tier unless that tier's pool is empty.
C23_OneToThreeDrops ==
    (/\ pure.phase = "drops"
     /\ pure.passes = pure.num_drops
     /\ CatalogItems # {})
      => /\ Len(pure.got) = pure.num_drops
         /\ Len(pure.got) >= 1
         /\ Len(pure.got) <= 3
         /\ \A i \in Materials : pure.bag[i] = CountIn([k \in 1 .. Len(pure.got) |-> pure.got[k].item], i)
         /\ \A k \in 1 .. Len(pure.got) :
              LET ele == EnemyEle(pure.element)
                  d == pure.got[k]
              IN  /\ d.item \in CatalogItems
                  /\ MaterialPool(ele, d.tier) # <<>>
                       => \E j \in 1 .. Len(MaterialPool(ele, d.tier)) :
                            MaterialPool(ele, d.tier)[j] = d.item

\* a water enemy's three passes gave three units, one of them from a tier
\* other than the enemy's
C23_ThreeUnits ==
    /\ pure.phase = "drops"
    /\ pure.element = "water"
    /\ pure.rarity = "common"
    /\ pure.passes = 3
    /\ pure.bag["Droplet"] = 2
    /\ pure.bag["Pearl"] = 1

\* C24: once a relic is activated with /use, every enemy defeat raises its
\* kill counter by one, and the defeat at which the counter reaches the goal
\* puts the filled relic into the bag.
C24_DefeatsChargeRelic ==
    [][ (/\ pure.phase = "relic"
         /\ pure.relic_charge.on
         /\ pure'.op = "defeat"
         /\ pure'.defeats = pure.defeats + 1)
          => IF pure.relic_charge.kills + 1 >= RelicGoal
               THEN pure'.filled = pure.filled + 1
               ELSE /\ pure'.relic_charge.on
                    /\ pure'.relic_charge.kills = pure.relic_charge.kills + 1
      ]_vars

\* a counter under the key the settlement reads was filled by a defeat
C24_OrbFilled ==
    /\ pure.phase = "relic"
    /\ pure.filled = 1
    /\ ~pure.respawn_orb.on
    /\ pure.defeats = 2

\* C25: the account cascade levels up as long as the xp reaches the
\* threshold of the level; a level-up to N grants N * 200 coins, 2..5 contracts
\* of the bracket's tier (N < 10, N < 20, N < 50, none from 50 on) and one
\* Soulbound Contract exactly at N in {10, 25, 50, 75, 100}; when the cascade
\* ends the xp is non-negative and below the threshold of the level.
C25_AccountCascade ==
    [][ (pure.phase = "acct" /\ pure'.phase = "acct" /\ pure.stage = "loop") =>
          LET p == pure.p
              q == pure'.p
              N == q.level
              tier == IF N < 10 THEN "Contract"
                      ELSE IF N < 20 THEN "Great Contract"
                      ELSE IF N < 50 THEN "Ancient Contract"
                      ELSE "none"
          IN  IF p.xp >= xp_required_for_level(p.level)
                THEN /\ N = p.level + 1
                     /\ q.xp = p.xp - xp_required_for_level(p.level)
                     /\ q.coins = p.coins + N * 200
                     /\ \A c \in Contracts \ {"Soulbound Contract"} :
                          IF c = tier
                            THEN q.bag[c] - p.bag[c] \in 2 .. 5
                            ELSE q.bag[c] = p.bag[c]
                     /\ q.bag["Soulbound Contract"] - p.bag["Soulbound Contract"]
                          = IF N \in {10, 25, 50, 75, 100} THEN 1 ELSE 0
                ELSE /\ pure'.stage = "idle"
                     /\ q = p
                     /\ q.xp >= 0
                     /\ q.xp < xp_required_for_level(q.level)
      ]_vars

\* C25 witness: one gain took the account from level 8 over 9 to 10 and beyond:
\* Contracts for level 9, Great Contracts and the Soulbound Contract for 10.
C25_Witness ==
    /\ pure.phase = "acct"
    /\ pure.stage = "idle"
    /\ pure.gains = 1
    /\ pure.ups >= 3
    /\ pure.p.level >= 11
    /\ pure.p.bag["Contract"] \in 2 .. 5
    /\ pure.p.bag["Great Contract"] >= 4
    /\ pure.p.bag["Soulbound Contract"] = 1

\* the account reached level 100 and got its Soulbound Contract, no tier item
C25_Level100 ==
    /\ pure.phase = "acct"
    /\ pure.p.level = 100
    /\ pure.ups = 1
    /\ pure.p.coins = 20000
    /\ pure.p.bag = [i \in Contracts |-> IF i = "Soulbound Contract" THEN 1 ELSE 0]

\* C26: a move name that is not in the active hero's moveset, compared
\* case-insensitively, fails: it changes no hp, and the turn is still played,
\* the enemy's move being resolved as for any other turn (the hero's failed
\* move is resolved unless the enemy moved first and brought it to 0 hp).
C26_UnknownMoveFails ==
    (/\ pure.phase = "turn_done"
     /\ \A i \in 1 .. Len(pure.hero.moveset) :
          Lower(pure.hero.moveset[i].move) # Lower(pure.move_name))
      => /\ pure.pout = "failed"
         /\ pure.res.ehp = pure.enemy.current_hp
         /\ pure.res.php
              = resolve_move(pure.enemy, pure.hero, pure.emove, pure.edraw).hp
         /\ \E k \in 1 .. Len(pure.res.acts) : pure.res.acts[k].side = "enemy"
         /\ (\E k \in 1 .. Len(pure.res.acts) : pure.res.acts[k].side = "player")
              <=> (pure.order[1] = "player" \/ pure.res.php > 0)

\* C26 witness: the hero was told to use Strike, which it does not know; the
\* enemy is untouched and its Splash hit the hero.
C26_Witness ==
    /\ pure.phase = "turn_done"
    /\ pure.move_name = "Strike"
    /\ pure.order = <<"player", "enemy">>
    /\ pure.pout = "failed"
    /\ pure.res.ehp = pure.enemy.current_hp
    /\ pure.res.php < pure.hero.current_hp
    /\ pure.res.php > 0

\* a name that differs from the moveset's only by case is played
C26_CaseInsensitive ==
    /\ pure.phase = "turn_done"
    /\ pure.move_name = "SLASH"
    /\ pure.pout = "hit"
    /\ pure.res.ehp < pure.enemy.current_hp

\* C27: a command whose template or hero lookup failed leaves the player
\* record as it found it: nothing consumed, no xp, level, coin or roster
\* change.
C27_FailedLookupNoChange ==
    (pure.phase = "lookup" /\ pure.failed) => pure.rec = pure.before

\* a starter whose template is missing and an elixir for a hero that is not
\* there were refused with the record untouched
C27_RefusedClean ==
    /\ pure.phase = "lookup"
    /\ pure.failed
    /\ pure.op \in {"starter", "elixir"}
    /\ pure.rec = pure.before
    /\ pure.ops = 2

\* C28: when save_json raised during a command, the record in memory and the
\* files on disk are as they were before the command.
C28_SaveFailureRollsBack ==
    (pure.phase = "econ" /\ pure.raised) =>
        /\ pure.mem = pure.before.mem
        /\ pure.disk = pure.before.disk

\* /ahsell whose second save raised: the listing is in the auctions file, the
\* players file still holds the listed units
C28_HalfSaved ==
    /\ pure.phase = "econ"
    /\ pure.raised
    /\ pure.op = "ahsell"
    /\ pure.disk.auctions # pure.before.disk.auctions
    /\ pure.disk.players = pure.before.disk.players

\* C29: an economy command given a non-positive amount, bet or price, or an
\* auction duration outside 12, 24, 48, 72, changes nothing in memory or on
\* disk.
C29_InvalidInputRejected ==
    (/\ pure.phase = "econ"
     /\ \/ /\ pure.op \in {"slots", "purchase", "sell", "ahbuy", "cfcreate"}
           /\ pure.args.amount <= 0
        \/ /\ pure.op = "ahsell"
           /\ \/ pure.args.amount <= 0
              \/ pure.args.price <= 0
              \/ pure.args.time \notin {12, 24, 48, 72})
    => /\ pure.mem = pure.before.mem
       /\ pure.disk = pure.before.disk

\* the two checks the code does make: /cfcreate refuses a non-positive bet
\* and /ahsell an unsupported duration
C29_CheckedInputs ==
    (/\ pure.phase = "econ"
     /\ \/ pure.op = "cfcreate" /\ pure.args.amount <= 0
        \/ pure.op = "ahsell" /\ pure.args.time \notin {12, 24, 48, 72})
    => /\ pure.rejected
       /\ pure.mem = pure.before.mem
       /\ pure.disk = pure.before.disk

\* C30: in every interleaving of save_json calls on one path at most one call
\* is between opening the temp file and the replace, and the target file is
\* always the complete dump of a version the data had.
C30_OneWriterCompleteTarget ==
    pure.phase = "save" =>
        /\ Cardinality({ t \in SaveCallers : pure.at[t] \in {"open", "dumped"} }) <= 1
        /\ pure.target.kind = "full"
        /\ pure.target.v <= pure.data

\* one call has dumped a later version into the temp file while two others
\* wait at the lock
C30_Witness ==
    /\ pure.phase = "save"
    /\ \E t \in SaveCallers :
         /\ pure.at[t] = "dumped"
         /\ pure.tmp = FullFile(pure.data)
         /\ pure.data > pure.target.v
         /\ \A u \in SaveCallers \ {t} : pure.at[u] = "wait"

AuctionStale == pure.phase = "sweep" /\ pure.auction.on /\ pure.now >= pure.auction.end_time

FlipStale ==
    pure.phase = "sweep" /\ pure.flip.on /\ pure.now - pure.flip.time > EXPIRY_SECONDS

\* C31: while the bot runs, an auction past its end time and a coinflip older
\* than the expiry window are eventually removed.
C31_StaleEventuallySwept ==
    /\ AuctionStale ~> ~pure.auction.on
    /\ FlipStale ~> ~pure.flip.on

\* the bot is ready, both the auction and the coinflip are stale, either sweep
\* body would return what is held, and both are still there
C31_SweepDue ==
    /\ AuctionStale
    /\ FlipStale
    /\ pure.ready
    /\ auction_cleanup(pure, pure.now).bag = pure.bag + pure.auction.amount
    /\ coinflip_cleanup(pure, pure.now).coins.u1 = pure.coins.u1 + pure.flip.amount

\* C32: the idle timeout of a session changes nothing in the player records,
\* the roster or the drop ledger, so what earlier defeats paid stays; the
\* session it ends offers no component, and no later step changes a message
\* whose session timed out.
C32_TimeoutAbandons ==
    [][ /\ last'.res = "timeout"
          => /\ UNCHANGED <<players, pc, enemies, views, drop_summary, phaseSum>>
             /\ \E m \in 1..Len(msgs) :
                  /\ Components(msgs[m].comp) # {}
                  /\ Components(msgs'[m].comp) = {}
        /\ \A m \in 1..Len(msgs) :
             msgs[m].comp.kind = "expired" => msgs'[m] = msgs[m]
      ]_vars

\* C32 witness: a won battle paid its coins, then the next session timed out
\* after a turn, with the enemy hurt and standing
C32_Witness ==
    /\ last.res = "timeout"
    /\ players["u1"].coins > 0
    /\ Len(msgs) = 2
    /\ msgs[1].shown = "victory"
    /\ msgs[2].comp.kind = "expired"
    /\ msgs[2].shown = "battle"
    /\ enemies[2].current_hp > 0
    /\ enemies[2].current_hp < enemies[2].stats.hp

\* the names of the template's skills unlocked at or below a level
UnlockedSkills(skills, level) ==
    { skills[i].skill : i \in { j \in 1..Len(skills) : skills[j].lv <= level } }

\* C33: a materialized entity has 1 to 4 moves, each a skill of its template
\* unlocked at or below its level, or the single default Strike when no skill
\* qualifies.
C33_MovesetUnlocked ==
    (pure.phase = "build" /\ pure.stage # "template") =>
        LET ms   == pure.entity.moveset
            qual == UnlockedSkills(pure.skills, pure.entity.level)
        IN  /\ Len(ms) \in 1..4
            /\ IF qual = {} THEN ms = << DefaultStrike >>
                            ELSE \A i \in 1..Len(ms) : ms[i].move \in qual

\* the starter is the entity the statement holds for: add_starter filters by
\* level and falls back to Strike
C33_StarterFiltered ==
    (pure.phase = "build" /\ pure.stage # "template" /\ pure.kind = "starter") =>
        LET ms   == pure.entity.moveset
            qual == UnlockedSkills(pure.skills, pure.entity.level)
        IN  /\ Len(ms) \in 1..4
            /\ IF qual = {} THEN ms = << DefaultStrike >>
                            ELSE \A i \in 1..Len(ms) : ms[i].move \in qual

\* C34: a turn against an enemy with an empty moveset resolves: the enemy's
\* move is the generic Strike and the handler does not raise.
C34_EmptyMovesetStrikes ==
    (pure.phase = "build" /\ pure.stage = "turn" /\ pure.entity.moveset = <<>>) =>
        /\ ~pure.raised
        /\ pure.move = "Strike"

\* C35: a move built from a skill whose catalog power is not numeric never
\* changes the defender's hp.
C35_NonNumericIsSupport ==
    (/\ pure.phase = "build" /\ pure.stage = "used"
     /\ \E i \in 1..Len(pure.skills) :
          /\ pure.skills[i].skill = pure.move
          /\ pure.skills[i].power \notin DigitStrings)
    => pure.hp_after = pure.hp_before

\* the non-numeric skill Guard, used with the accuracy draw passed, is
\* resolved as a hit of power 0
C35_GuardHits ==
    /\ pure.phase = "build" /\ pure.stage = "used"
    /\ pure.move = "Guard"
    /\ pure.outcome = "hit"
    /\ pure.hp_after < pure.hp_before

\* C36: an enemy that reached 0 hp is settled once: on every battle message
\* the number of settlements (coins, hero xp, account xp, drops and boss index
\* applied) is at most the number of its enemies that were defeated, also when
\* a second move is delivered while the first handler's reply is pending.
C36_SettledOnce ==
    \A m \in 1..Len(msgs) :
      msgs[m].defeats <=
        Cardinality({ e \in 1..Len(enemies) :
                        /\ enemies[e].current_hp <= 0
                        /\ \E v \in 1..Len(views) :
                             views[v].msg = m /\ views[v].enemy = e })

\* the second settlement: the handler of a move delivered during the pending
\* victory reply resolved no move and paid the same enemy again
C36_PaidTwice ==
    /\ Len(msgs) = 1
    /\ msgs[1].defeats = 2
    /\ Len(enemies) = 1
    /\ lastTurn.acts = <<>>
    /\ lastTurn.ended = "enemy_down"
    /\ last.overlap

\* every boss session of player u is over: its message offers no component
\* (retreated, lost, timed out or stalled) and no handler of it is pending
BossSessionsOver(u) ==
    \A b \in 1..Len(msgs) :
      (msgs[b].boss /\ msgs[b].owner = u) =>
        /\ Components(msgs[b].comp) = {}
        /\ ~\E t \in tasks : t.msg = b

\* C37: once the boss sessions of a player are over, an enemy defeat in a
\* later battle that /boss did not start leaves the stored boss queue and its index
\* as they were, grants no badge and no domain-clear bonus, and does not
\* announce a boss-queue enemy as the next opponent.
C37_BossStateStaysInSession ==
    [][ \A m \in 1..Len(msgs) :
          (/\ msgs'[m].defeats > msgs[m].defeats
           /\ ~msgs[m].boss
           /\ \A b \in 1..Len(msgs) :
                (msgs[b].boss /\ msgs[b].owner = msgs[m].owner) => b < m
           /\ BossSessionsOver(msgs[m].owner))
          => LET u == msgs[m].owner
             IN  /\ players'[u].boss_battle = players[u].boss_battle
                 /\ players'[u].badge = players[u].badge
                 /\ players'[u].coins - players[u].coins < 5000
                 /\ \A t \in tasks' \ tasks : t.shown # "bossnext"
      ]_vars

\* the badge was granted on the message of an explore battle while the boss
\* message of the same player sits stalled
C37_BadgeFromExplore ==
    /\ players["u1"].badge
    /\ \E m \in 1..Len(msgs) :
         /\ ~msgs[m].boss
         /\ msgs[m].shown = "victory"
         /\ msgs[m].summary.cleared
    /\ \E b \in 1..Len(msgs) : msgs[b].boss /\ msgs[b].shown = "bossnext"

\* C38: a successful recruitment adds the entity its prompt presented, the
\* one whose rarity set the success chance.
C38_RecruitsThePrompted ==
    (pure.phase = "recruit" /\ pure.last.op = "recruit" /\ pure.last.success) =>
        /\ pure.pc[Len(pure.pc)] = pure.prompts[pure.last.prompt].target
        /\ pure.pc[Len(pure.pc)].rarity = pure.last.pick.rarity

\* the summoned legendary was on the prompt and a wild monster stored by an
\* earlier explore joined the roster
C38_MonsterRecruited ==
    /\ pure.phase = "recruit" /\ pure.last.op = "recruit" /\ pure.last.success
    /\ pure.prompts[pure.last.prompt].target.name = "Aurelia"
    /\ pure.pc[Len(pure.pc)].name = "Slime"

\* C39: one prompt yields at most one owned entity, also when a second
\* recruit action is delivered before the first one's edit has completed.
C39_OnePerPrompt ==
    pure.phase = "recruit" =>
        \A i \in 1..Len(pure.prompts) : pure.prompts[i].recruited <= 1

\* the prompt of one explore encounter put two entities on the roster
C39_TwoFromOnePrompt ==
    /\ pure.phase = "recruit"
    /\ \E i \in 1..Len(pure.prompts) : pure.prompts[i].recruited = 2
    /\ Len(pure.prompts) = 1 /\ pure.last.op = "recruit"

\* C40: the wild hero encounter of explore has the level and the shiny flag
\* the picker rolled, and a monster encounter is never shiny.
C40_PickerRollKept ==
    /\ (pure.phase = "recruit" /\ pure.last.op = "hero") =>
         /\ pure.last.inst.level = pure.last.pick.level
         /\ pure.last.inst.shiny = pure.last.pick.shiny
    /\ (pure.phase = "recruit" /\ pure.last.op = "monster") => ~pure.last.inst.shiny

\* what does hold: the rolled level is kept, no wild hero is shiny, no
\* monster is shiny
C40_LevelKeptNeverShiny ==
    (pure.phase = "recruit" /\ pure.last.op \in {"hero", "monster"}) =>
        /\ pure.last.inst.level = pure.last.pick.level
        /\ ~pure.last.inst.shiny

====
